---------------------------- MODULE Spec2Model ----------------------------
(***************************************************************************)
(* Model of the retrieval layer of lit_review_app:                         *)
(*   - parse_query           (src/retrieval/query_understanding.py)        *)
(*   - search_sqlite, fetch_papers_by_ids, fetch_features                  *)
(*                           (src/retrieval/db.py)                         *)
(*   - bm25_search           (src/retrieval/es_client.py)                  *)
(*   - vector_search         (src/retrieval/vector_store.py)               *)
(*   - hybrid_search, search_with_distributions                            *)
(*                           (src/retrieval/search.py)                     *)
(*                                                                         *)
(* Text is modelled as a sequence of lexical atoms (a 4-digit year, a      *)
(* Latin word, a CJK word, a blank, a dash).  Regular expressions of the   *)
(* source are evaluated on atoms with Python's leftmost-match semantics.   *)
(* Scores are exact rationals kept as an integer numerator over a common   *)
(* per-call denominator; floating-point rounding is not modelled.          *)
(***************************************************************************)
EXTENDS Integers, Sequences, FiniteSets, TLC

(***************************************************************************)
(* Bounds of the model                                                     *)
(***************************************************************************)
MaxRawLen == 4

(***************************************************************************)
(* Generic helpers                                                         *)
(***************************************************************************)
\* None for an optional year (start_year / end_year / ParsedQuery years)
NoYear == -1

Max2(a, b) == IF a >= b THEN a ELSE b

Min2(a, b) == IF a <= b THEN a ELSE b

\* s[lo..hi] with Python slice clamping (1-based, inclusive), <<>> when empty
Slice(s, lo, hi) ==
    LET l == Max2(lo, 1)
        h == Min2(hi, Len(s))
    IN  IF l > h THEN <<>> ELSE [i \in 1..(h - l + 1) |-> s[l + i - 1]]

\* SeqsUpTo(S, n): every sequence over S of length at most n
SeqsUpTo(S, n) == UNION {[1..k -> S] : k \in 0..n}

(***************************************************************************)
(* Lexical atoms of query text.  CJK words are written in pinyin:         *)
(* zhi, dao, nian, zhijin, yihou, cong, zhiqian, yiqian, zhongwen, hanyu, *)
(* yingwen, yingyu, zhili, de, yanjiu each stand for one CJK word.         *)
(***************************************************************************)
YearAtoms == {"2015", "2018", "2023"}

YearVal(a) ==
    CASE a = "2015" -> 2015
      [] a = "2018" -> 2018
      [] a = "2023" -> 2023

Blank == " "

\* the separator class of the range pattern: dash, en dash, zhi, dao
RangeSeps == {"-", "zhi", "dao"}

\* (?:zhijin|yihou)
OpenStartWords == {"zhijin", "yihou"}

\* (?:after|since|cong), matched with re.I
StartPrefixWords == {"after", "since", "cong"}

\* (?:before|zhiqian)
EndPrefixWords == {"before", "zhiqian"}

\* (?:yiqian|zhiqian)
EndSuffixWords == {"yiqian", "zhiqian"}

ZhWords == {"zhongwen", "hanyu", "china", "chinese"}

EnWords == {"yingwen", "yingyu", "english"}

LatinAtoms == {"after", "since", "before", "china", "chinese", "english",
               "gov", "Gov", "the", "and"}

CjkAtoms == {"zhi", "dao", "nian", "zhijin", "yihou", "cong", "zhiqian", "yiqian", "zhongwen", "hanyu",
             "yingwen", "yingyu", "zhili", "de", "yanjiu"}

\* str.lower() on one atom
LowerAtom(a) == IF a = "Gov" THEN "gov" ELSE a

Lower(s) == [i \in 1..Len(s) |-> LowerAtom(s[i])]

\* a run of 48 digits 0: it holds no year and is no token
LongDigits == "d48"

\* \w of Python's re on str: letters, digits, CJK; not blanks or dashes
IsWordAtom(a) == a \in YearAtoms \cup LatinAtoms \cup CjkAtoms \cup {LongDigits}

\* str.strip(): drop leading and trailing blanks
RECURSIVE LStrip(_)
LStrip(s) == IF s # <<>> /\ Head(s) = Blank THEN LStrip(Tail(s)) ELSE s

RECURSIVE RStrip(_)
RStrip(s) ==
    IF s # <<>> /\ s[Len(s)] = Blank THEN RStrip(SubSeq(s, 1, Len(s) - 1)) ELSE s

Strip(s) == RStrip(LStrip(s))

(***************************************************************************)
(* parse_query: the five year patterns                                     *)
(***************************************************************************)
\* first index >= j holding a non-blank atom (Len(s)+1 when none): \s*
RECURSIVE SkipBlanks(_, _)
SkipBlanks(s, j) ==
    IF j <= Len(s) /\ s[j] = Blank THEN SkipBlanks(s, j + 1) ELSE j

IsYearAt(s, j) == j >= 1 /\ j <= Len(s) /\ s[j] \in YearAtoms

IsAt(s, j, S) == j >= 1 /\ j <= Len(s) /\ LowerAtom(s[j]) \in S

year_patterns == <<"range", "start_suffix", "start_prefix", "end_prefix", "end_suffix">>

PatternKind(p) ==
    CASE p = 1 -> "range"
      [] p \in {2, 3} -> "start"
      [] p \in {4, 5} -> "end"

\* MatchEnd(p, s, i): index of the last atom of the match of pattern p that
\* starts at atom i, or 0 when pattern p does not match there
MatchEnd(p, s, i) ==
    CASE p = 1 ->
            \* (?:19|20)\d{2}\s*[- zhi dao]\s*(?:19|20)\d{2}
            LET j == SkipBlanks(s, i + 1)
                k == SkipBlanks(s, j + 1)
            IN  IF IsYearAt(s, i) /\ IsAt(s, j, RangeSeps) /\ IsYearAt(s, k)
                THEN k ELSE 0
      [] p = 2 ->
            \* (?:19|20)\d{2}\s*nian\s*(?:zhijin|yihou)
            LET j == SkipBlanks(s, i + 1)
                k == SkipBlanks(s, j + 1)
            IN  IF IsYearAt(s, i) /\ IsAt(s, j, {"nian"}) /\ IsAt(s, k, OpenStartWords)
                THEN k ELSE 0
      [] p = 3 ->
            \* (?:after|since|cong)\s*(?:19|20)\d{2}
            LET j == SkipBlanks(s, i + 1)
            IN  IF IsAt(s, i, StartPrefixWords) /\ IsYearAt(s, j) THEN j ELSE 0
      [] p = 4 ->
            \* (?:before|zhiqian)\s*(?:19|20)\d{2}
            LET j == SkipBlanks(s, i + 1)
            IN  IF IsAt(s, i, EndPrefixWords) /\ IsYearAt(s, j) THEN j ELSE 0
      [] p = 5 ->
            \* (?:19|20)\d{2}\s*nian?(?:yiqian|zhiqian)
            LET j == SkipBlanks(s, i + 1)
            IN  IF ~IsYearAt(s, i) THEN 0
                ELSE IF IsAt(s, j, {"nian"}) /\ IsAt(s, j + 1, EndSuffixWords) THEN j + 1
                ELSE IF IsAt(s, j, EndSuffixWords) THEN j
                ELSE 0

\* re.search: the leftmost start at which pattern p matches, 0 when none
SearchStart(p, s) ==
    LET starts == {i \in 1..Len(s) : MatchEnd(p, s, i) # 0}
    IN  IF starts = {} THEN 0 ELSE CHOOSE i \in starts : \A j \in starts : i <= j

\* re.findall(r"19\d{2}|20\d{2}", m.group(0)) as a set of integers
MatchNums(s, i, e) == {YearVal(s[k]) : k \in {x \in i..e : s[x] \in YearAtoms}}

SetMax(S) == CHOOSE x \in S : \A y \in S : y <= x

SetMin(S) == CHOOSE x \in S : \A y \in S : x <= y

\* one iteration of the loop over year_patterns: st = [remaining, start_year, end_year]
ApplyPattern(p, st) ==
    LET s    == st.remaining
        i    == SearchStart(p, s)
        e    == MatchEnd(p, s, i)
        nums == MatchNums(s, i, e)
        kind == PatternKind(p)
    IN  IF i = 0 THEN st
        ELSE [remaining  |-> Slice(s, 1, i - 1) \o <<Blank>> \o Slice(s, e + 1, Len(s)),
              start_year |-> IF kind = "range" THEN SetMin(nums)
                             ELSE IF kind = "start" THEN SetMax(nums)
                             ELSE st.start_year,
              end_year   |-> IF kind = "range" THEN SetMax(nums)
                             ELSE IF kind = "end" THEN SetMin(nums)
                             ELSE st.end_year]

\* the whole loop "for pat, kind in year_patterns": there is no break
RECURSIVE YearLoop(_, _)
YearLoop(p, st) ==
    IF p > Len(year_patterns) THEN st ELSE YearLoop(p + 1, ApplyPattern(p, st))


(***************************************************************************)
(* parse_query: language markers, tokens, stop words, fallback term        *)
(***************************************************************************)
\* \b on either side of the atom at index i: the neighbour is absent or not \w
WordBounded(s, i) ==
    /\ (i = 1 \/ ~IsWordAtom(s[i - 1]))
    /\ (i = Len(s) \/ ~IsWordAtom(s[i + 1]))

\* re.search(r"\b(...)\b", remaining, re.I)
HasMarker(s, words) ==
    \E i \in 1..Len(s) : LowerAtom(s[i]) \in words /\ WordBounded(s, i)

\* re.sub(r"\b(...)\b", " ", remaining, flags=re.I)
RemoveMarkers(s, words) ==
    [i \in 1..Len(s) |->
        IF LowerAtom(s[i]) \in words /\ WordBounded(s, i) THEN Blank ELSE s[i]]

AtomClass(a) ==
    IF a \in LatinAtoms THEN "latin" ELSE IF a \in CjkAtoms THEN "cjk" ELSE "other"

\* re.findall(r"[a-zA-Z]{2,}|[\u4e00-\u9fff]+", remaining): maximal runs of
\* Latin atoms and maximal runs of CJK atoms; a token is the run of its atoms
RECURSIVE TokensFrom(_, _, _)
TokensFrom(s, i, cur) ==
    IF i > Len(s) THEN (IF cur = <<>> THEN <<>> ELSE <<cur>>)
    ELSE LET c == AtomClass(s[i])
         IN  IF c = "other"
             THEN (IF cur = <<>> THEN <<>> ELSE <<cur>>) \o TokensFrom(s, i + 1, <<>>)
             ELSE IF cur # <<>> /\ AtomClass(cur[1]) # c
             THEN <<cur>> \o TokensFrom(s, i + 1, <<s[i]>>)
             ELSE TokensFrom(s, i + 1, Append(cur, s[i]))

Tokens(s) == TokensFrom(s, 1, <<>>)

\* the members of the source's stop set that are atoms of this model
stop == {<<"de">>, <<"cong">>, <<"dao">>, <<"yanjiu">>, <<"the">>, <<"and">>}

RECURSIVE DropStop(_)
DropStop(ts) ==
    IF ts = <<>> THEN <<>>
    ELSE IF Head(ts) \in stop THEN DropStop(Tail(ts))
    ELSE <<Head(ts)>> \o DropStop(Tail(ts))

\* number of characters of an atom, for raw.strip()[:50]
AtomChars(a) ==
    IF a \in YearAtoms THEN 4
    ELSE IF a = LongDigits THEN 48
    ELSE IF a \in {Blank, "-"} THEN 1
    ELSE IF a \in {"zhi", "dao", "nian", "cong", "de"} THEN 1
    ELSE IF a \in CjkAtoms THEN 2
    ELSE IF a \in {"gov", "Gov", "the", "and"} THEN 3
    ELSE IF a \in {"after", "since", "china"} THEN 5
    ELSE IF a = "before" THEN 6
    ELSE 7

RECURSIVE CharLen(_)
CharLen(s) == IF s = <<>> THEN 0 ELSE AtomChars(Head(s)) + CharLen(Tail(s))

FallbackChars == 50

\* the first k characters of atom a, 0 < k < AtomChars(a), as an atom of their
\* own (zhi, zhi2, zhi3 are three different CJK characters)
PartialAtom(a, k) ==
    CASE a = "after" /\ k = 1 -> "a"
      [] a = "after" /\ k = 2 -> "af"
      [] a = "after" /\ k = 3 -> "aft"
      [] a = "after" /\ k = 4 -> "afte"
      [] a = "since" /\ k = 1 -> "s"
      [] a = "since" /\ k = 2 -> "si"
      [] a = "since" /\ k = 3 -> "sin"
      [] a = "since" /\ k = 4 -> "sinc"
      [] a = "before" /\ k = 1 -> "b"
      [] a = "before" /\ k = 2 -> "be"
      [] a = "before" /\ k = 3 -> "bef"
      [] a = "before" /\ k = 4 -> "befo"
      [] a = "before" /\ k = 5 -> "befor"
      [] a = "china" /\ k = 1 -> "c"
      [] a = "china" /\ k = 2 -> "ch"
      [] a = "china" /\ k = 3 -> "chi"
      [] a = "china" /\ k = 4 -> "chin"
      [] a = "chinese" /\ k = 1 -> "c"
      [] a = "chinese" /\ k = 2 -> "ch"
      [] a = "chinese" /\ k = 3 -> "chi"
      [] a = "chinese" /\ k = 4 -> "chin"
      [] a = "chinese" /\ k = 5 -> "chine"
      [] a = "chinese" /\ k = 6 -> "chines"
      [] a = "english" /\ k = 1 -> "e"
      [] a = "english" /\ k = 2 -> "en"
      [] a = "english" /\ k = 3 -> "eng"
      [] a = "english" /\ k = 4 -> "engl"
      [] a = "english" /\ k = 5 -> "engli"
      [] a = "english" /\ k = 6 -> "englis"
      [] a = "gov" /\ k = 1 -> "g"
      [] a = "gov" /\ k = 2 -> "go"
      [] a = "Gov" /\ k = 1 -> "G"
      [] a = "Gov" /\ k = 2 -> "Go"
      [] a = "the" /\ k = 1 -> "t"
      [] a = "the" /\ k = 2 -> "th"
      [] a = "and" /\ k = 1 -> "a"
      [] a = "and" /\ k = 2 -> "an"
      [] a = "2015" /\ k = 1 -> "2"
      [] a = "2015" /\ k = 2 -> "20"
      [] a = "2015" /\ k = 3 -> "201"
      [] a = "2018" /\ k = 1 -> "2"
      [] a = "2018" /\ k = 2 -> "20"
      [] a = "2018" /\ k = 3 -> "201"
      [] a = "2023" /\ k = 1 -> "2"
      [] a = "2023" /\ k = 2 -> "20"
      [] a = "2023" /\ k = 3 -> "202"
      [] a = "zhijin" /\ k = 1 -> "zhi"
      [] a = "zhiqian" /\ k = 1 -> "zhi2"
      [] a = "yihou" /\ k = 1 -> "yi"
      [] a = "yiqian" /\ k = 1 -> "yi"
      [] a = "zhongwen" /\ k = 1 -> "zhong"
      [] a = "hanyu" /\ k = 1 -> "han"
      [] a = "yingwen" /\ k = 1 -> "ying"
      [] a = "yingyu" /\ k = 1 -> "ying"
      [] a = "zhili" /\ k = 1 -> "zhi3"
      [] a = "yanjiu" /\ k = 1 -> "yan"

\* no cut at all: the slice C11 must tell apart from s[:50]
TakeEverything(s, n) == s

\* s[:n]: whole atoms while they fit, then the part of the next atom that fits
RECURSIVE TakeChars(_, _)
TakeChars(s, n) ==
    IF s = <<>> \/ n = 0 THEN <<>>
    ELSE IF AtomChars(Head(s)) > n THEN <<PartialAtom(Head(s), n)>>
    ELSE <<Head(s)>> \o TakeChars(Tail(s), n - AtomChars(Head(s)))

\* parse_query(raw)
parse_query(raw0) ==
    LET raw   == Strip(raw0)
        yl    == YearLoop(1, [remaining |-> raw, start_year |-> NoYear, end_year |-> NoYear])
        lang  == IF HasMarker(yl.remaining, ZhWords) THEN "zh"
                 ELSE IF HasMarker(yl.remaining, EnWords) THEN "en"
                 ELSE "None"
        rem   == IF lang = "zh" THEN RemoveMarkers(yl.remaining, ZhWords)
                 ELSE IF lang = "en" THEN RemoveMarkers(yl.remaining, EnWords)
                 ELSE yl.remaining
        terms == DropStop(Tokens(rem))
    IN  [topic_terms |-> IF terms = <<>> /\ Strip(raw) # <<>>
                         THEN <<TakeChars(Strip(raw), FallbackChars)>>
                         ELSE terms,
         start_year  |-> yl.start_year,
         end_year    |-> yl.end_year,
         language    |-> lang,
         raw_query   |-> raw]

(***************************************************************************)
(* The papers table (src/data/schema.py) and the two indexes               *)
(***************************************************************************)
\* a year column holding text that is not a digit string, such as "n.d."
BadYear == -2

\* _journal_weight(journal), in tenths
JournalHigh == {"jingjiyanjiu", "guanlishijie"}

JournalGeneric == {"xuebao", "journal", "review"}

_journal_weight(journal) ==
    IF journal = <<>> THEN 0
    ELSE IF \E i \in 1..Len(journal) : LowerAtom(journal[i]) \in JournalHigh THEN 9
    ELSE IF \E i \in 1..Len(journal) : LowerAtom(journal[i]) \in JournalGeneric THEN 5
    ELSE 2

\* needle occurs in hay as a contiguous run of atoms (Python "in" on str);
\* the empty needle occurs everywhere
Contains(hay, needle) ==
    \E i \in 0..(Len(hay) - Len(needle)) :
        \A k \in 1..Len(needle) : hay[i + k] = needle[k]

\* title LIKE '%t%': SQLite's LIKE ignores the case of ASCII letters
Like(field, t) == Contains(Lower(field), Lower(t))

(***************************************************************************)
(* search_sqlite (src/retrieval/db.py)                                     *)
(***************************************************************************)
\* CAST(year AS INTEGER): NULL stays NULL, text without leading digits is 0
CastYear(y) == IF y = BadYear THEN 0 ELSE y

\* the WHERE clause built by search_sqlite
SqliteWhere(row, q, start_year, end_year, source) ==
    /\ Strip(q) # <<>> =>
          \/ Like(row.title, Strip(q))
          \/ Like(row.abstract, Strip(q))
          \/ Like(row.keywords, Strip(q))
          \/ Like(row.journal, Strip(q))
    /\ start_year # NoYear => (row.year # NoYear /\ CastYear(row.year) >= start_year)
    /\ end_year # NoYear => (row.year # NoYear /\ CastYear(row.year) <= end_year)
    /\ source # "" => row.source = source

\* collation of the TEXT column year: NULL lowest, digit strings by value,
\* text starting with a letter above every digit string
YearSortKey(y) == IF y = NoYear THEN 0 ELSE IF y = BadYear THEN 10000 ELSE y

\* ORDER BY year, paper_id (ascending years): the order C7 must tell apart
SqliteBeforeAscending(papers, a, b) ==
    \/ YearSortKey(papers[a].year) < YearSortKey(papers[b].year)
    \/ YearSortKey(papers[a].year) = YearSortKey(papers[b].year) /\ a < b

\* ORDER BY year DESC, paper_id: a before b
SqliteBefore(papers, a, b) ==
    \/ YearSortKey(papers[a].year) > YearSortKey(papers[b].year)
    \/ YearSortKey(papers[a].year) = YearSortKey(papers[b].year) /\ a < b

\* the ids of S in ORDER BY order
RECURSIVE SqliteOrder(_, _)
SqliteOrder(papers, S) ==
    IF S = {} THEN <<>>
    ELSE LET f == CHOOSE a \in S : \A b \in S \ {a} : SqliteBefore(papers, a, b)
         IN  <<f>> \o SqliteOrder(papers, S \ {f})

\* one row of fetch_papers_by_ids / search_sqlite as a result item; a fused
\* score is attached as <<numerator>>, the sqlite path attaches none (<<>>)
ResultItem(papers, pid, score) ==
    [paper_id |-> pid, year |-> papers[pid].year, score |-> score]

search_sqlite(papers, q, start_year, end_year, source, limit, offset) ==
    LET matched == {p \in DOMAIN papers :
                        SqliteWhere(papers[p], q, start_year, end_year, source)}
        ordered == SqliteOrder(papers, matched)
        page    == Slice(ordered, offset + 1, offset + limit)
    IN  [results |-> [i \in 1..Len(page) |-> ResultItem(papers, page[i], <<>>)],
         total   |-> Cardinality(matched),
         path    |-> "sqlite",
         raised  |-> FALSE,
         den     |-> 1,
         topic_distribution |-> <<>>,
         year_distribution  |-> <<>>]

(***************************************************************************)
(* The two search backends.  Their relevance scores are external: each row *)
(* carries the raw BM25 score (bm25) and the raw cosine score (cos) that   *)
(* the engines give its text for the topic "gov"; another keyword query   *)
(* matches no document, the vector engine scores every document.           *)
(***************************************************************************)
TopicQuery == <<"gov">>

\* the _score Elasticsearch gives a document for the query built by bm25_search:
\* multi_match on q.strip(), or match_all (constant score 1) when q is blank;
\* 0 stands for "not a hit"
EsScore(row, q) ==
    IF Strip(q) = <<>> THEN 1
    ELSE IF Lower(Strip(q)) = TopicQuery THEN row.bm25
    ELSE 0

\* the keyword field year holds str(doc.get("year") or ""); range filters
\* compare terms as strings: "" lowest, digit strings by value, "n.d." highest
EsYearTerm(y) == IF y = NoYear THEN 0 ELSE IF y = BadYear THEN 10000 ELSE y

\* the filter clauses of bm25_search
EsFilter(row, start_year, end_year, source) ==
    /\ start_year # NoYear => EsYearTerm(row.year) >= start_year
    /\ end_year # NoYear => EsYearTerm(row.year) <= end_year
    /\ source # "" => row.source = source

\* stable sort of a sequence of <<paper_id, score>> by score, highest first
\* (list.sort(key=score, reverse=True) keeps the order of equal scores)
RECURSIVE InsertDesc(_, _)
InsertDesc(sorted, x) ==
    IF sorted = <<>> THEN <<x>>
    ELSE IF Head(sorted)[2] >= x[2] THEN <<Head(sorted)>> \o InsertDesc(Tail(sorted), x)
    ELSE <<x>> \o sorted

RECURSIVE SortDesc(_)
SortDesc(seq) ==
    IF seq = <<>> THEN <<>>
    ELSE InsertDesc(SortDesc(SubSeq(seq, 1, Len(seq) - 1)), seq[Len(seq)])

RECURSIVE SelectSeq2(_, _, _)
SelectSeq2(ids, papers, keep) ==
    IF ids = <<>> THEN <<>>
    ELSE IF keep[Head(ids)] THEN <<Head(ids)>> \o SelectSeq2(Tail(ids), papers, keep)
    ELSE SelectSeq2(Tail(ids), papers, keep)

\* bm25_search(q, start_year, end_year, source, size): the first `size` hits
\* by score; equal scores come in the index's document order
bm25_search(papers, es_docs, q, start_year, end_year, source, size) ==
    LET keep == [p \in DOMAIN papers |->
                    /\ EsScore(papers[p], q) > 0
                    /\ EsFilter(papers[p], start_year, end_year, source)]
        docs == SelectSeq2(es_docs, papers, keep)
        hits == SortDesc([i \in 1..Len(docs) |-> <<docs[i], EsScore(papers[docs[i]], q)>>])
    IN  Slice(hits, 1, size)

\* the inner product FAISS gives a document for the encoded query text
CosScore(row, q) == row.cos

\* vector_search(query, top_k): index.search returns min(top_k, len(ids))
\* neighbours by inner product, whatever its sign; no year/source filter
vector_search(papers, ids, query, top_k) ==
    LET hits == SortDesc([i \in 1..Len(ids) |-> <<ids[i], CosScore(papers[ids[i]], query)>>])
    IN  Slice(hits, 1, Min2(top_k, Len(ids)))

(***************************************************************************)
(* hybrid_search (src/retrieval/search.py)                                 *)
(***************************************************************************)
\* the default weights, in hundredths
DEFAULT_W1 == 45

DEFAULT_W2 == 25

DEFAULT_W3 == 10

DEFAULT_W4 == 10

DEFAULT_TITLE_BONUS == 20

DefaultWeights ==
    [w1 |-> DEFAULT_W1, w2 |-> DEFAULT_W2, w3 |-> DEFAULT_W3, w4 |-> DEFAULT_W4,
     title_bonus |-> DEFAULT_TITLE_BONUS]

WeightSum(w) == w.w1 + w.w2 + w.w3 + w.w4 + w.title_bonus

Abs(x) == IF x < 0 THEN -x ELSE x

Sgn(x) == IF x < 0 THEN -1 ELSE IF x > 0 THEN 1 ELSE 0

\* max(s for _, s in hits) or 1.0, with 1.0 kept when there is no hit
RECURSIVE SeqMaxScore(_)
SeqMaxScore(hits) ==
    IF Len(hits) = 1 THEN hits[1][2]
    ELSE Max2(hits[1][2], SeqMaxScore(Tail(hits)))

MaxOrOne(hits) ==
    IF hits = <<>> THEN 1
    ELSE IF SeqMaxScore(hits) = 0 THEN 1 ELSE SeqMaxScore(hits)

\* does _title_match_bonus raise?  (topic_terms or raw_query or "").strip() is
\* evaluated once title is non-empty; a non-empty list has no strip()
TitleBonusRaises(title, topic_terms) == title # <<>> /\ topic_terms # <<>>

\* _title_match_bonus(title, topic_terms, raw_query) as 0 or 1, when it returns
\* (None and the empty list are both <<>>: the function treats them alike)
_title_match_bonus(title, topic_terms, raw_query) ==
    LET title_lower == Lower(Strip(title))
    IN  IF title = <<>> \/ (topic_terms = <<>> /\ Strip(raw_query) = <<>>) THEN 0
        ELSE IF \E i \in 1..Len(topic_terms) :
                    /\ topic_terms[i] # <<>>
                    /\ Contains(title_lower, Lower(Strip(topic_terms[i])))
        THEN 1
        ELSE IF Strip(raw_query) # <<>> /\ Contains(title_lower, Lower(Strip(raw_query)))
        THEN 1
        ELSE 0

\* _user_pref_score(text, pref_terms) as the fraction num / (2 * max(1, len(pref))):
\* min(1.0, hits / len * 0.5 + 0.5) = (hits + len) / (2 * len)
UserPrefNum(text, pref) ==
    IF pref = <<>> \/ text = <<>> THEN 0
    ELSE Cardinality({i \in 1..Len(pref) : Contains(Lower(text), Lower(pref[i]))}) + Len(pref)

UserPrefDen(pref) == 2 * Max2(1, Len(pref))

\* id_scores: the candidate ids in dict insertion order (keyword hits first,
\* then the vector hits not seen before)
RECURSIVE Ids(_)
Ids(hits) == IF hits = <<>> THEN <<>> ELSE <<Head(hits)[1]>> \o Ids(Tail(hits))

RECURSIVE AppendNew(_, _)
AppendNew(ids, more) ==
    IF more = <<>> THEN ids
    ELSE IF \E i \in 1..Len(ids) : ids[i] = Head(more) THEN AppendNew(ids, Tail(more))
    ELSE AppendNew(Append(ids, Head(more)), Tail(more))

\* scores.get(key) or 0
RawOf(hits, pid) ==
    IF \E i \in 1..Len(hits) : hits[i][1] = pid
    THEN hits[CHOOSE i \in 1..Len(hits) : hits[i][1] = pid][2]
    ELSE 0

\* md.get("year") or 0, then int(): <<FALSE>> when int() raises, <<TRUE, y>> else
MetaYear(papers, pid) ==
    IF pid \notin DOMAIN papers \/ papers[pid].year = NoYear THEN <<TRUE, 0>>
    ELSE IF papers[pid].year = BadYear THEN <<FALSE, 0>>
    ELSE <<TRUE, papers[pid].year>>

\* the hard filters of the candidate loop: TRUE when the candidate is kept
PassesFilters(papers, pid, start_year, end_year, source) ==
    /\ start_year # NoYear =>
          (MetaYear(papers, pid)[1] /\ ~(MetaYear(papers, pid)[2] < start_year))
    /\ end_year # NoYear =>
          (MetaYear(papers, pid)[1] /\ ~(MetaYear(papers, pid)[2] > end_year))
    /\ source # "" => (pid \in DOMAIN papers /\ papers[pid].source = source)

MetaField(papers, pid, f) == IF pid \in DOMAIN papers THEN papers[pid][f] ELSE <<>>

\* the fused score of one candidate as a numerator over FusedDen
FusedNum(papers, pid, bm25_hits, vec_hits, q, w, pref, topic_terms) ==
    LET mb  == MaxOrOne(bm25_hits)
        mv  == MaxOrOne(vec_hits)
        ud  == UserPrefDen(pref)
        bm  == RawOf(bm25_hits, pid) * Sgn(mb)
        vc  == RawOf(vec_hits, pid) * Sgn(mv)
        jw  == _journal_weight(MetaField(papers, pid, "journal"))
        up  == UserPrefNum(MetaField(papers, pid, "title") \o <<Blank>>
                            \o MetaField(papers, pid, "abstract"), pref)
        tb  == _title_match_bonus(MetaField(papers, pid, "title"), topic_terms, q)
        amb == Abs(mb)
        amv == Abs(mv)
    IN  w.w1 * bm * amv * 10 * ud
        + w.w2 * vc * amb * 10 * ud
        + w.w3 * jw * amb * amv * ud
        + w.w4 * up * amb * amv * 10
        + w.title_bonus * tb * amb * amv * 10 * ud

\* the common denominator: score = FusedNum / (100 * FusedDen)
FusedDen(bm25_hits, vec_hits, pref) ==
    Abs(MaxOrOne(bm25_hits)) * Abs(MaxOrOne(vec_hits)) * 10 * UserPrefDen(pref)

RECURSIVE KeepPassing(_, _, _, _, _)
KeepPassing(ids, papers, start_year, end_year, source) ==
    IF ids = <<>> THEN <<>>
    ELSE IF PassesFilters(papers, Head(ids), start_year, end_year, source)
    THEN <<Head(ids)>> \o KeepPassing(Tail(ids), papers, start_year, end_year, source)
    ELSE KeepPassing(Tail(ids), papers, start_year, end_year, source)

\* results: the page's ids that have a metadata row, each with its score
RECURSIVE PageItems(_, _)
PageItems(papers, page) ==
    IF page = <<>> THEN <<>>
    ELSE IF Head(page)[1] \in DOMAIN papers
    THEN <<ResultItem(papers, Head(page)[1], <<Head(page)[2]>>)>> \o PageItems(papers, Tail(page))
    ELSE PageItems(papers, Tail(page))

\* an AttributeError leaves hybrid_search: no value is returned
Raised ==
    [results |-> <<>>, total |-> 0, path |-> "fusion", raised |-> TRUE, den |-> 1,
     topic_distribution |-> <<>>, year_distribution |-> <<>>]

\* hybrid_search(q, start_year, end_year, source, limit, offset, w1..title_bonus,
\*               user_pref_terms, topic_terms): the backends answer from the
\* documents their indexes hold (indexed), fetch_papers_by_ids reads the
\* papers table of LIT_DB_PATH (papers)
hybrid_search_on(indexed, papers, es_docs, vec_ids, q, start_year, end_year, source, limit, offset, w, user_pref_terms, topic_terms) ==
    LET use_es    == es_docs # <<>>
        use_vec   == vec_ids # <<>>
        bm25_hits == IF use_es
                     THEN bm25_search(indexed, es_docs, q, start_year, end_year, source, limit * 2)
                     ELSE <<>>
        vec_hits  == IF use_vec /\ Strip(q) # <<>>
                     THEN vector_search(indexed, vec_ids, q, limit * 2)
                     ELSE <<>>
        id_scores == AppendNew(Ids(bm25_hits), Ids(vec_hits))
        kept      == KeepPassing(id_scores, papers, start_year, end_year, source)
        combined  == SortDesc([i \in 1..Len(kept) |->
                        <<kept[i], FusedNum(papers, kept[i], bm25_hits, vec_hits, q, w,
                                            user_pref_terms, topic_terms)>>])
        page      == Slice(combined, offset + 1, offset + limit)
    IN  IF (use_es \/ use_vec) /\ id_scores # <<>>
        THEN IF \E i \in 1..Len(kept) :
                    TitleBonusRaises(MetaField(papers, kept[i], "title"), topic_terms)
             THEN Raised
             ELSE [results |-> PageItems(papers, page),
                   total   |-> Len(combined),
                   path    |-> "fusion",
                   raised  |-> FALSE,
                   den     |-> FusedDen(bm25_hits, vec_hits, user_pref_terms),
                   topic_distribution |-> <<>>,
                   year_distribution  |-> <<>>]
        ELSE search_sqlite(papers, q, start_year, end_year, source, limit, offset)

\* hybrid_search when both indexes were built from the papers table it reads
hybrid_search(papers, es_docs, vec_ids, q, start_year, end_year, source, limit, offset, w, user_pref_terms, topic_terms) ==
    hybrid_search_on(papers, papers, es_docs, vec_ids, q, start_year, end_year, source, limit,
                     offset, w, user_pref_terms, topic_terms)

(***************************************************************************)
(* search_with_distributions (src/retrieval/search.py)                     *)
(***************************************************************************)
\* " ".join(terms)
RECURSIVE JoinBlank(_)
JoinBlank(terms) ==
    IF terms = <<>> THEN <<>>
    ELSE IF Len(terms) = 1 THEN terms[1]
    ELSE terms[1] \o <<Blank>> \o JoinBlank(Tail(terms))

\* year_cnt: the results whose year is not None and that int() accepts
YearCounted(item) == item.year # NoYear /\ item.year # BadYear

\* [{"year": k, "count": v} for k, v in sorted(year_cnt.items())] as <<k, v>> pairs
RECURSIVE SortedYearCounts(_, _)
SortedYearCounts(results, years) ==
    IF years = {} THEN <<>>
    ELSE LET y == SetMin(years)
         IN  <<<<y, Cardinality({i \in 1..Len(results) : results[i].year = y})>>>>
             \o SortedYearCounts(results, years \ {y})

\* a count for every year value of the results, the missing year included
YearsOfAllResults(results) ==
    SortedYearCounts(results, {results[i].year : i \in 1..Len(results)})

year_distribution(results) ==
    SortedYearCounts(results,
        {results[i].year : i \in {j \in 1..Len(results) : YearCounted(results[j])}})

\* fetch_features(...)[pid].get("topic_id") or ""
TopicOf(papers, pid) == IF pid \in DOMAIN papers THEN papers[pid].topic_id ELSE ""

\* the topic ids of the results in order of first occurrence (Counter keeps
\* insertion order)
RECURSIVE TopicsSeen(_, _, _)
TopicsSeen(papers, results, seen) ==
    IF results = <<>> THEN <<>>
    ELSE LET t == TopicOf(papers, Head(results).paper_id)
         IN  IF t = "" \/ t \in seen THEN TopicsSeen(papers, Tail(results), seen)
             ELSE <<t>> \o TopicsSeen(papers, Tail(results), seen \cup {t})

TopicCap == 20

\* topic_cnt.most_common(20) as <<topic_id, count>> pairs
topic_distribution(papers, results) ==
    LET ts == TopicsSeen(papers, results, {})
    IN  Slice(SortDesc([i \in 1..Len(ts) |->
                <<ts[i], Cardinality({j \in 1..Len(results) :
                                        TopicOf(papers, results[j].paper_id) = ts[i]})>>]),
              1, TopicCap)

\* the one element of a singleton set (binds a computed value to a name)
Only(S) == CHOOSE x \in S : TRUE

\* the caller's years win over the parsed ones; the topic terms are joined
MergeParsed(pq, q, start_year, end_year) ==
    [start_year  |-> IF pq.start_year # NoYear /\ start_year = NoYear
                     THEN pq.start_year ELSE start_year,
     end_year    |-> IF pq.end_year # NoYear /\ end_year = NoYear
                     THEN pq.end_year ELSE end_year,
     topic_str   |-> IF pq.topic_terms # <<>> THEN JoinBlank(pq.topic_terms) ELSE q,
     topic_terms |-> IF pq.topic_terms # <<>> THEN pq.topic_terms ELSE <<Strip(q)>>]

\* the arguments search_with_distributions hands to hybrid_search
SwdArgs(q, start_year, end_year, use_query_understanding) ==
    IF use_query_understanding /\ Strip(q) # <<>>
    THEN Only({MergeParsed(pq, q, start_year, end_year) : pq \in {parse_query(q)}})
    ELSE [start_year  |-> start_year,
          end_year    |-> end_year,
          topic_str   |-> q,
          topic_terms |-> IF Strip(q) # <<>> THEN <<Strip(q)>> ELSE <<>>]

\* the hybrid_search call of search_with_distributions
SwdCall(papers, es_docs, vec_ids, a, source, limit, offset) ==
    hybrid_search(papers, es_docs, vec_ids, a.topic_str, a.start_year, a.end_year, source,
                  limit, offset, DefaultWeights, <<>>, a.topic_terms)

\* what search_with_distributions makes of the value r of that call
SwdOutcome(papers, r) ==
    IF r.raised THEN Raised
    ELSE IF r.results = <<>>
    THEN [r EXCEPT !.results = <<>>, !.total = 0]
    ELSE [r EXCEPT !.topic_distribution = topic_distribution(papers, r.results),
                   !.year_distribution = year_distribution(r.results)]

search_with_distributions(papers, es_docs, vec_ids, q, start_year, end_year, source, limit, offset, use_query_understanding) ==
    Only({SwdOutcome(papers, r) :
            r \in {SwdCall(papers, es_docs, vec_ids, a, source, limit, offset) :
                      a \in {SwdArgs(q, start_year, end_year, use_query_understanding)}}})

(***************************************************************************)
(* State                                                                   *)
(***************************************************************************)
VARIABLES
    parse_pc,    \* "idle": no query text yet; "ready": text given; "done": parsed
    parse_raw,   \* the argument of the parse_query call
    parsed,      \* the ParsedQuery it returned
    papers,      \* the papers table joined with paper_features: paper_id -> row
    es_docs,     \* the Elasticsearch index: paper ids in document order
    vec_ids,     \* paper_ids.pkl: the ids of the FAISS index, in row order
    es_up,       \* the deployment has a reachable Elasticsearch server
    faiss_up,    \* the deployment has faiss and the embedding model installed
    other_db,    \* the papers table of a database other than LIT_DB_PATH
    pc,          \* "idle", or the search call whose result is being returned
    req,         \* the arguments of that call
    resp,        \* the value it returns
    an_pc,       \* "idle", "ready": a paper list is given, or the analysis call made
    an_env,      \* which of the optional models and libraries this process can load
    an_given,    \* the caller's list of paper dicts as it was when the call was made
    an_papers,   \* the contents of that same list and its dicts now
    an_arg,      \* n_clusters or min_weight of the call
    an_out,      \* the value the call returned
    ld_kind,     \* the lazy loader this process exercises
    ld_slot,     \* _embed_model_instance / self._embed_model / self._classifier
    ld_failed,   \* _embed_model_failed
    ld_owner,    \* the caller whose load constructed the object in the slot (0: none)
    ld_pc,       \* caller -> where its call stands
    ld_thread,   \* caller -> the loader thread its call started
    ld_ret,      \* caller -> what the loader and the function using it returned
    ex_pc,       \* where the extract_structured call stands ("idle": no call)
    ex_in,       \* its arguments and settings
    ex_attempt,  \* attempt, the loop variable of _call_llm_extract
    ex_log,      \* the requests made and the sleeps taken, in order
    ex_llm,      \* what _call_llm_extract returned
    ex_out       \* what extract_structured returned

parseVars == <<parse_pc, parse_raw, parsed>>

storeVars == <<papers, es_docs, vec_ids, es_up, faiss_up, other_db>>

callVars == <<pc, req, resp>>

analysisVars == <<an_pc, an_env, an_given, an_papers, an_arg, an_out>>

loaderVars == <<ld_kind, ld_slot, ld_failed, ld_owner, ld_pc, ld_thread, ld_ret>>

extractVars == <<ex_pc, ex_in, ex_attempt, ex_log, ex_llm, ex_out>>

vars == <<parse_pc, parse_raw, parsed, papers, es_docs, vec_ids, es_up, faiss_up, other_db, pc, req, resp,
          analysisVars, loaderVars, extractVars>>

NotParsed ==
    [topic_terms |-> <<>>, start_year |-> NoYear, end_year |-> NoYear,
     language |-> "None", raw_query |-> <<>>]

NoReq ==
    [op |-> "none", q |-> <<>>, start_year |-> NoYear, end_year |-> NoYear, source |-> "",
     limit |-> 1, offset |-> 0, w |-> DefaultWeights, user_pref_terms |-> <<>>,
     topic_terms |-> <<>>, use_query_understanding |-> FALSE]

NoResp ==
    [results |-> <<>>, total |-> 0, path |-> "none", raised |-> FALSE, den |-> 1,
     topic_distribution |-> <<>>, year_distribution |-> <<>>]

\* no parse_query call is in progress
ParseIdle ==
    /\ parse_pc = "idle"
    /\ parse_raw = <<>>
    /\ parsed = NotParsed

\* the threads that call a loader
MaxCallers == 2

Callers == 1..MaxCallers

NoReturn ==
    [value |-> "pending", out |-> "pending", timed_out |-> FALSE, instance |-> 0,
     started |-> FALSE, entered |-> [failed |-> FALSE, instance |-> 0]]

\* no model is loaded and no loader is called
LoaderIdle ==
    /\ ld_slot = "None"
    /\ ld_failed = FALSE
    /\ ld_owner = 0
    /\ ld_pc = [c \in Callers |-> "idle"]
    /\ ld_thread = [c \in Callers |-> "none"]
    /\ ld_ret = [c \in Callers |-> NoReturn]

\* the fields of paper_structured
StructuredKeys ==
    {"background", "research_question", "methods", "conclusions", "contributions",
     "limitations"}

NoExtractInput == [use_llm |-> FALSE, api_key |-> FALSE, blank |-> TRUE, heuristic |-> {}]

\* no extract_structured call is made
ExtractIdle ==
    /\ ex_pc = "idle"
    /\ ex_in = NoExtractInput
    /\ ex_attempt = 0
    /\ ex_log = <<>>
    /\ ex_llm = [returned |-> FALSE, keys |-> {}]
    /\ ex_out = [returned |-> FALSE, dict |-> [k \in StructuredKeys |-> ""]]

\* no analysis call is made
AnalysisIdle ==
    /\ an_pc = "idle"
    /\ an_env = [embed_ok |-> FALSE, clf_ok |-> FALSE, ml_ok |-> FALSE]
    /\ an_given = <<>>
    /\ an_papers = <<>>
    /\ an_arg = 0
    /\ an_out = [op |-> "none"]

\* the database is empty, no index is built, no search is running
SearchIdle ==
    /\ papers = <<>>
    /\ other_db = <<>>
    /\ es_docs = <<>>
    /\ vec_ids = <<>>
    /\ pc = "idle"
    /\ req = NoReq
    /\ resp = NoResp

(***************************************************************************)
(* Specification of parse_query: the query text is drawn from RawInputs,   *)
(* then parse_query is applied to it                                       *)
(***************************************************************************)
ParseAlphabet ==
    {"2018", "2023", Blank, "-", "nian", "zhijin", "after", "zhiqian", "gov", "de", "chinese"}

\* texts of up to MaxRawLen atoms, and such texts behind a long digit run
RawInputs ==
    SeqsUpTo(ParseAlphabet, MaxRawLen)
        \cup {<<LongDigits>> \o s : s \in SeqsUpTo(ParseAlphabet, MaxRawLen - 1)}

InitParse ==
    /\ parse_pc = "ready"
    /\ parse_raw \in RawInputs
    /\ parsed = NotParsed
    /\ SearchIdle
    /\ es_up = FALSE
    /\ faiss_up = FALSE
    /\ AnalysisIdle
    /\ LoaderIdle
    /\ ExtractIdle
    /\ ld_kind = "_embed_model"

\* one call parse_query(raw)
ParseQuery ==
    /\ parse_pc = "ready"
    /\ parse_pc' = "done"
    /\ parsed' = parse_query(parse_raw)
    /\ UNCHANGED parse_raw
    /\ UNCHANGED <<storeVars, callVars, analysisVars, loaderVars, extractVars>>

NextParse == ParseQuery

SpecParse == InitParse /\ [][NextParse]_vars

(***************************************************************************)
(* Claims about parse_query (checked under SpecParse)                      *)
(***************************************************************************)
\* the patterns, in list order, that match the stripped input text
MatchingPatterns(raw) ==
    {p \in 1..Len(year_patterns) : SearchStart(p, Strip(raw)) # 0}

\* what a first-match-wins loop would leave: only the first matching pattern acts
FirstMatchOnly(raw) ==
    LET st0 == [remaining |-> Strip(raw), start_year |-> NoYear, end_year |-> NoYear]
    IN  IF MatchingPatterns(raw) = {} THEN st0
        ELSE ApplyPattern(SetMin(MatchingPatterns(raw)), st0)

HasYearAtom(term) == \E i \in 1..Len(term) : term[i] \in YearAtoms

\* C9: year extraction is first-match-wins: the years returned are those of the
\* first pattern (in list order) that matches the input; later patterns change
\* neither start_year nor end_year.
C9_FirstMatchWins ==
    parse_pc = "done" =>
        /\ parsed.start_year = FirstMatchOnly(parse_raw).start_year
        /\ parsed.end_year = FirstMatchOnly(parse_raw).end_year

\* C10: whenever a year pattern matches the input, no returned topic term is or
\* contains a 4-digit year, also when the input is only the year phrase.
C10_NoYearInTopicTerms ==
    (parse_pc = "done" /\ MatchingPatterns(parse_raw) # {}) =>
        \A i \in 1..Len(parsed.topic_terms) : ~HasYearAtom(parsed.topic_terms[i])

\* the tokens left after year removal, language removal and stop-word filtering
SurvivingTokens(raw) ==
    LET yl   == YearLoop(1, [remaining |-> Strip(raw), start_year |-> NoYear,
                             end_year |-> NoYear])
        rem  == IF HasMarker(yl.remaining, ZhWords) THEN RemoveMarkers(yl.remaining, ZhWords)
                ELSE IF HasMarker(yl.remaining, EnWords)
                THEN RemoveMarkers(yl.remaining, EnWords)
                ELSE yl.remaining
    IN  DropStop(Tokens(rem))

\* the first 50 characters of text s: s itself when it has at most 50, else the
\* atoms that end within 50 characters and the fitting part of the next one
FirstFifty(s) ==
    IF CharLen(s) <= 50 THEN s
    ELSE LET n    == CHOOSE k \in 1..Len(s) :
                        CharLen(SubSeq(s, 1, k - 1)) <= 50 /\ CharLen(SubSeq(s, 1, k)) > 50
             used == CharLen(SubSeq(s, 1, n - 1))
         IN  IF used = 50 THEN SubSeq(s, 1, n - 1)
             ELSE Append(SubSeq(s, 1, n - 1), PartialAtom(s[n], 50 - used))

\* C11: for an input with a non-whitespace character topic_terms is never
\* empty, and when no token survives year/language removal and stop-word
\* filtering it is exactly the one-element list holding the trimmed input cut
\* to its first 50 characters.
C11_FallbackTerm ==
    (parse_pc = "done" /\ Strip(parse_raw) # <<>>) =>
        /\ parsed.topic_terms # <<>>
        /\ SurvivingTokens(parse_raw) = <<>> =>
              parsed.topic_terms = <<FirstFifty(Strip(parse_raw))>>

\* a text of more than 50 characters whose only tokens are stop words
C11_Witness ==
    /\ parse_pc = "done"
    /\ CharLen(Strip(parse_raw)) > 50
    /\ \E i \in 1..Len(parse_raw) : parse_raw[i] = "de"
    /\ SurvivingTokens(parse_raw) = <<>>
    /\ Len(parsed.topic_terms) = 1
    /\ Len(parsed.topic_terms[1]) < Len(Strip(parse_raw))

(***************************************************************************)
(* Specification of the search path: run_import fills the papers table and *)
(* rebuilds the indexes, then hybrid_search / search_with_distributions    *)
(* are called on the stored state                                          *)
(***************************************************************************)
MaxPapers == 3

MaxLimit == 2

MaxOffset == 2

\* paper ids are SHA-1 hex strings; the model keeps their order only
PaperIds == 1..MaxPapers

\* the documents a PDF folder may hold: the metadata process_pdf extracts
\* (year is None or a 4-digit year after normalize_year), the topic_id the
\* feature pipeline assigns, and the two engines' raw scores for the topic
PaperRows ==
    { [title |-> <<"Gov", Blank, "zhili">>, journal |-> <<"jingjiyanjiu">>, abstract |-> <<>>,
       keywords |-> <<>>, year |-> 2019, source |-> "batch2", topic_id |-> "topic_0",
       bm25 |-> 2, cos |-> 2],
      [title |-> <<>>, journal |-> <<>>, abstract |-> <<"gov">>,
       keywords |-> <<>>, year |-> 2021, source |-> "batch3", topic_id |-> "topic_1",
       bm25 |-> 1, cos |-> -1],
      [title |-> <<"gov">>, journal |-> <<"xuebao">>, abstract |-> <<>>,
       keywords |-> <<"gov">>, year |-> NoYear, source |-> "batch2", topic_id |-> "",
       bm25 |-> 2, cos |-> 1],
      [title |-> <<"zhili">>, journal |-> <<"zazhi">>, abstract |-> <<"zhili">>,
       keywords |-> <<>>, year |-> 2021, source |-> "batch2", topic_id |-> "topic_1",
       bm25 |-> 0, cos |-> 1] }

\* the orders in which a set of ids can be listed
RECURSIVE Perms(_)
Perms(S) ==
    IF S = {} THEN {<<>>}
    ELSE UNION {{<<x>> \o t : t \in Perms(S \ {x})} : x \in S}

\* the ids of S in ascending order
RECURSIVE Ascending(_)
Ascending(S) ==
    IF S = {} THEN <<>> ELSE <<SetMin(S)>> \o Ascending(S \ {SetMin(S)})

\* a second weight configuration, in hundredths
AltWeights == [w1 |-> 20, w2 |-> 50, w3 |-> 30, w4 |-> 40, title_bonus |-> 0]

\* (weights, user_pref_terms) of a hybrid_search call
RankConfigs == {<<DefaultWeights, <<>>>>, <<AltWeights, <<<<"zhili">>>>>>}

\* query texts given to search_with_distributions
SwdQueryTexts == {<<>>, <<"gov">>, <<"gov", Blank, "2018", "-", "2023">>, <<"2023", "zhiqian">>}

\* (start_year, end_year, source) of a search call
FilterArgs ==
    {<<NoYear, NoYear, "">>, <<2020, NoYear, "">>, <<NoYear, 2020, "">>,
     <<NoYear, NoYear, "batch2">>}

QueryTexts == {<<>>, <<"gov">>}

\* the deployment is any of: no backend, Elasticsearch, FAISS, both
InitSearch ==
    /\ ParseIdle
    /\ SearchIdle
    /\ es_up \in BOOLEAN
    /\ faiss_up \in BOOLEAN
    /\ AnalysisIdle
    /\ LoaderIdle
    /\ ExtractIdle
    /\ ld_kind = "_embed_model"

\* the documents the two indexes may hold: the rows of every database that
\* run_import was given
Indexed ==
    [p \in DOMAIN papers \cup DOMAIN other_db |->
        IF p \in DOMAIN papers THEN papers[p] ELSE other_db[p]]

\* run_import() over a folder with one new PDF: the row is inserted, then
\* _index_to_es puts every row of the table into the Elasticsearch index, which
\* keeps the documents it has, and _build_vector_index_from_files rebuilds the
\* FAISS index from the table; each prints its failure and changes nothing
\* when its backend is missing
RunImport(p, row) ==
    /\ pc = "idle"
    /\ p \notin DOMAIN papers \cup DOMAIN other_db
    /\ papers' = [x \in DOMAIN papers \cup {p} |-> IF x = p THEN row ELSE papers[x]]
    /\ IF es_up
       THEN es_docs' \in Perms({es_docs[i] : i \in 1..Len(es_docs)} \cup DOMAIN papers')
       ELSE UNCHANGED es_docs
    /\ IF faiss_up
       THEN vec_ids' = Ascending(DOMAIN papers')
       ELSE UNCHANGED vec_ids
    /\ UNCHANGED <<es_up, faiss_up, other_db, parseVars, callVars, analysisVars, loaderVars, extractVars>>

\* one call of hybrid_search
HybridSearch(q, f, limit, offset, c, topic_terms) ==
    /\ pc = "idle"
    /\ pc' = "hybrid_search"
    /\ req' = [op |-> "hybrid_search", q |-> q, start_year |-> f[1], end_year |-> f[2],
               source |-> f[3], limit |-> limit, offset |-> offset, w |-> c[1],
               user_pref_terms |-> c[2], topic_terms |-> topic_terms,
               use_query_understanding |-> FALSE]
    /\ resp' = hybrid_search_on(Indexed, papers, es_docs, vec_ids, q, f[1], f[2], f[3], limit,
                                offset, c[1], c[2], topic_terms)
    /\ UNCHANGED <<parseVars, storeVars, analysisVars, loaderVars, extractVars>>

\* one call of search_with_distributions
SearchWithDistributions(q, f, limit, offset, use_query_understanding) ==
    /\ pc = "idle"
    /\ pc' = "search_with_distributions"
    /\ req' = [op |-> "search_with_distributions", q |-> q, start_year |-> f[1],
               end_year |-> f[2], source |-> f[3], limit |-> limit, offset |-> offset,
               w |-> DefaultWeights, user_pref_terms |-> <<>>, topic_terms |-> <<>>,
               use_query_understanding |-> use_query_understanding]
    /\ resp' = search_with_distributions(papers, es_docs, vec_ids, q, f[1], f[2], f[3],
                                         limit, offset, use_query_understanding)
    /\ UNCHANGED <<parseVars, storeVars, analysisVars, loaderVars, extractVars>>

\* the caller takes the result
Return ==
    /\ pc # "idle"
    /\ pc' = "idle"
    /\ req' = NoReq
    /\ resp' = NoResp
    /\ UNCHANGED <<parseVars, storeVars, analysisVars, loaderVars, extractVars>>

Import == \E p \in PaperIds, row \in PaperRows : RunImport(p, row)

CallHybrid ==
    \E q \in QueryTexts, f \in FilterArgs, limit \in 1..MaxLimit, offset \in 0..MaxOffset,
       c \in RankConfigs, topic_terms \in {<<>>, <<<<"gov">>>>} :
        HybridSearch(q, f, limit, offset, c, topic_terms)

CallSwd ==
    \E q \in SwdQueryTexts, f \in FilterArgs, limit \in 1..MaxLimit, offset \in 0..MaxOffset,
       use_query_understanding \in BOOLEAN :
        SearchWithDistributions(q, f, limit, offset, use_query_understanding)

Next == Import \/ CallHybrid \/ Return

Spec == InitSearch /\ [][Next]_vars

NextSwd == Import \/ CallSwd \/ Return

SpecSwd == InitSearch /\ [][NextSwd]_vars

(***************************************************************************)
(* Claims about hybrid_search (checked under Spec)                         *)
(***************************************************************************)
\* a hybrid_search call has returned a value (it did not raise)
HybridReturned == pc = "hybrid_search" /\ ~resp.raised

\* the same call on the unchanged store and indexes, with another page
SamePage(limit, offset) ==
    hybrid_search(papers, es_docs, vec_ids, req.q, req.start_year, req.end_year, req.source,
                  limit, offset, req.w, req.user_pref_terms, req.topic_terms)

\* the fused path was taken: every returned item carries a fused score
FusionReturned == HybridReturned /\ resp.path = "fusion"

\* C1: pagination consistency: on unchanged inputs, for k >= 1 the page for
\* (offset=0, limit=k) followed by the page for (offset=k, limit=k) equals the
\* page for (offset=0, limit=2k), and the three calls report the same total.
C1_PaginationConsistent ==
    (HybridReturned /\ req.offset = 0) =>
        LET k      == req.limit
            second == SamePage(k, k)
            both   == SamePage(2 * k, 0)
        IN  (~second.raised /\ ~both.raised) =>
                /\ resp.results \o second.results = both.results
                /\ resp.total = second.total
                /\ resp.total = both.total

\* C2: in the fusion path, two candidates with the same fused score are listed
\* with the smaller paper_id first, whatever order the backends gave them in.
C2_TieBreakByPaperId ==
    FusionReturned =>
        \A i, j \in 1..Len(resp.results) :
            (i < j /\ resp.results[i].score = resp.results[j].score) =>
                resp.results[i].paper_id < resp.results[j].paper_id

\* C3: in the fusion path, whenever start_year or end_year is given, no returned
\* candidate has a missing or unparseable year or a year outside the range.
C3_YearHardFilter ==
    (FusionReturned /\ (req.start_year # NoYear \/ req.end_year # NoYear)) =>
        \A i \in 1..Len(resp.results) :
            /\ resp.results[i].year # NoYear
            /\ resp.results[i].year # BadYear
            /\ req.start_year # NoYear => resp.results[i].year >= req.start_year
            /\ req.end_year # NoYear => resp.results[i].year <= req.end_year

\* C4: with non-negative weights, every fused score lies in
\* [0, w1 + w2 + w3 + w4 + title_bonus] (score = numerator / (100 * den),
\* weights in hundredths).
C4_FusedScoreBound ==
    FusionReturned =>
        \A i \in 1..Len(resp.results) :
            /\ resp.results[i].score[1] >= 0
            /\ resp.results[i].score[1] <= WeightSum(req.w) * resp.den

\* C5: total is the number of filtered candidates before pagination: it is the
\* same for every offset and limit on unchanged inputs, an offset at or beyond
\* it yields an empty page, and a page holds all remaining candidates up to limit.
C5_TotalBeforePagination ==
    HybridReturned =>
        /\ \A limit \in 1..MaxLimit, offset \in 0..MaxOffset :
              ~SamePage(limit, offset).raised => SamePage(limit, offset).total = resp.total
        /\ req.offset >= resp.total => resp.results = <<>>
        /\ Len(resp.results) = Min2(req.limit, Max2(resp.total - req.offset, 0))

(***************************************************************************)
(* Claims about search_with_distributions (checked under SpecSwd)          *)
(***************************************************************************)
SwdReturned == pc = "search_with_distributions" /\ ~resp.raised

\* the same call on the unchanged store and indexes, with another page
SameSwdPage(limit, offset) ==
    search_with_distributions(papers, es_docs, vec_ids, req.q, req.start_year, req.end_year,
                              req.source, limit, offset, req.use_query_understanding)

\* C6: topic_distribution and year_distribution are computed over the whole
\* unpaginated matched set, so they do not change when only offset or limit
\* changes.
C6_DistributionsUnpaginated ==
    SwdReturned =>
        \A limit \in 1..MaxLimit, offset \in 0..MaxOffset :
            ~SameSwdPage(limit, offset).raised =>
                /\ SameSwdPage(limit, offset).topic_distribution = resp.topic_distribution
                /\ SameSwdPage(limit, offset).year_distribution = resp.year_distribution

(***************************************************************************)
(* The no-backend fallback (checked under Spec)                            *)
(***************************************************************************)
NoBackend == es_docs = <<>> /\ vec_ids = <<>>

\* the substring / year / source filters of the request, on one stored row
MatchesRequest(row) ==
    /\ req.q # <<>> =>
          \E f \in {row.title, row.abstract, row.keywords, row.journal} :
              Contains(Lower(f), Lower(req.q))
    /\ req.start_year # NoYear => (row.year # NoYear /\ row.year >= req.start_year)
    /\ req.end_year # NoYear => (row.year # NoYear /\ row.year <= req.end_year)
    /\ req.source # "" => row.source = req.source

Matched == {p \in DOMAIN papers : MatchesRequest(papers[p])}

\* year descending (a missing year last), then paper_id ascending
ListedBefore(a, b) ==
    LET ya == IF papers[a].year = NoYear THEN 0 ELSE papers[a].year
        yb == IF papers[b].year = NoYear THEN 0 ELSE papers[b].year
    IN  ya > yb \/ (ya = yb /\ a < b)

\* C7: with neither index available hybrid_search returns the metadata filter
\* result without a fused score: total counts the papers matching the
\* substring/year/source filters, the page holds those at ranks offset+1 ..
\* offset+limit in the order year descending then paper_id ascending, and an
\* empty query without filters gives the whole store.
C7_NoBackendFallback ==
    (HybridReturned /\ NoBackend) =>
        /\ resp.path = "sqlite"
        /\ resp.total = Cardinality(Matched)
        /\ Len(resp.results) = Min2(req.limit, Max2(resp.total - req.offset, 0))
        /\ \A i \in 1..Len(resp.results) :
              /\ resp.results[i].score = <<>>
              /\ resp.results[i].paper_id \in Matched
              /\ Cardinality({m \in Matched : ListedBefore(m, resp.results[i].paper_id)})
                    = req.offset + i - 1
        /\ (req.q = <<>> /\ req.start_year = NoYear /\ req.end_year = NoYear
                /\ req.source = "") => resp.total = Cardinality(DOMAIN papers)

\* a fallback call over three stored papers with two different years, a text
\* query and the second page of size one
C7_Witness ==
    /\ HybridReturned
    /\ NoBackend
    /\ Cardinality(DOMAIN papers) = MaxPapers
    /\ req.q = <<"gov">>
    /\ req.offset = 1
    /\ Cardinality(Matched) = 2
    /\ Len(resp.results) = 1
    /\ \E m \in Matched : papers[m].year # papers[resp.results[1].paper_id].year

(***************************************************************************)
(* analysis/service.py: CollectionAnalyzer.  A paper dict is a record      *)
(*   id             the paper's id (every Paper has one)                   *)
(*   year           an integer, NoYear (None or no key), BadYear ("n.d.")  *)
(*   keywords       the keyword list, <<>> when missing or empty           *)
(*   vector         the length of the "vector" list, NoVector when the key *)
(*                  is missing or None                                     *)
(*   attitude_label, methods_label   top-level labels, "" when missing     *)
(*   features       the nested dict, NoFeatures when missing or empty      *)
(*   text_keywords, text_attitude, text_vector   what KeyBERT, the         *)
(*                  zero-shot classifier and the sentence encoder give for *)
(*                  this paper's title and abstract                        *)
(***************************************************************************)
NoVector == -1

\* a key that the nested features dict does not have
KeyMissing == "(missing)"

NoFeatures == [present |-> FALSE, attitude |-> KeyMissing, methods_label |-> KeyMissing]

\* the default of features.attitude
CautiousNeutral == "jinshenzhongxing"

\* SinglePaperProcessor.get_embedding: None without the model, else its encoding
get_embedding(p, embed_ok) == IF embed_ok THEN p.text_vector ELSE NoVector

\* SinglePaperProcessor.classify_attitude: "neutral" without the pipeline, else the
\* first of the candidate labels the pipeline ranks
classify_attitude(p, clf_ok) == IF clf_ok THEN p.text_attitude ELSE "neutral"

\* x.get(key) or fallback, for a value that is "" or KeyMissing when falsy
OrElse(x, fallback) == IF x = "" \/ x = KeyMissing THEN fallback ELSE x

\* the two assignments of _enrich_papers into a non-empty features dict
FeaturesAssigned(p) ==
    [present |-> TRUE,
     attitude |-> OrElse(p.attitude_label, OrElse(p.features.attitude, CautiousNeutral)),
     methods_label |-> OrElse(p.methods_label, OrElse(p.features.methods_label, ""))]

\* the dict _enrich_papers appends for the input dict p
EnrichOne(p, env) ==
    [p EXCEPT
        !.keywords = IF p.keywords = <<>> THEN p.text_keywords ELSE p.keywords,
        !.vector = IF p.vector = NoVector THEN get_embedding(p, env.embed_ok) ELSE p.vector,
        !.features =
            IF ~p.features.present
            THEN [present |-> TRUE,
                  attitude |-> OrElse(p.attitude_label, classify_attitude(p, env.clf_ok)),
                  methods_label |-> p.methods_label]
            ELSE FeaturesAssigned(p)]

\* the list _enrich_papers returns
_enrich_papers(ps, env) == [i \in 1..Len(ps) |-> EnrichOne(ps[i], env)]

\* the caller's list after _enrich_papers: p = dict(p) is a shallow copy, so the
\* assignments to p["features"][...] of the else branch land in the caller's dict
AfterEnrich(ps) ==
    [i \in 1..Len(ps) |->
        IF ps[i].features.present
        THEN [ps[i] EXCEPT !.features = FeaturesAssigned(ps[i])]
        ELSE ps[i]]

\* the keywords of the modelled papers in Python's string order
KeywordOrder == <<"ai", "gov", "law">>

KwRank(k) == CHOOSE i \in 1..Len(KeywordOrder) : KeywordOrder[i] = k

\* tuple(sorted([a, b]))
SortedPair(a, b) == IF KwRank(a) <= KwRank(b) THEN <<a, b>> ELSE <<b, a>>

\* the pairs of one keyword list in the order of the loops over i and j > i
RECURSIVE PairsFrom(_, _)
PairsFrom(kws, i) ==
    IF i >= Len(kws) THEN <<>>
    ELSE [k \in 1..(Len(kws) - i) |-> SortedPair(kws[i], kws[i + k])] \o PairsFrom(kws, i + 1)

\* every pair_counts[pair] += 1 of the call, in order
RECURSIVE AllPairs(_)
AllPairs(ps) ==
    IF ps = <<>> THEN <<>> ELSE PairsFrom(Head(ps).keywords, 1) \o AllPairs(Tail(ps))

\* every keyword occurrence of the call, in order
RECURSIVE AllKeywords(_)
AllKeywords(ps) == IF ps = <<>> THEN <<>> ELSE Head(ps).keywords \o AllKeywords(Tail(ps))

\* Counter(seq)[x]
Occurrences(seq, x) == Cardinality({i \in 1..Len(seq) : seq[i] = x})

\* the keys of Counter(seq) in insertion order
CounterKeys(seq) == AppendNew(<<>>, seq)

\* a network that keeps every keyword as a node whatever its links
NetworkOfAllKeywords(ps, env, min_weight) ==
    LET enriched == _enrich_papers(ps, env)
        pairs == AllPairs(enriched)
        words == AllKeywords(enriched)
        kept == SelectSeq(CounterKeys(pairs), LAMBDA pr : Occurrences(pairs, pr) >= min_weight)
    IN  [nodes |-> {[id |-> n, value |-> Occurrences(words, n)] :
                       n \in {words[i] : i \in 1..Len(words)}},
         links |-> [i \in 1..Len(kept) |->
                       [source |-> kept[i][1], target |-> kept[i][2],
                        value |-> Occurrences(pairs, kept[i])]]]

\* build_cooccurrence_network(papers, min_weight); "name" and "symbolSize" of a
\* node are functions of its id and value and are left out
build_cooccurrence_network(ps, env, min_weight) ==
    LET enriched == _enrich_papers(ps, env)
        pairs == AllPairs(enriched)
        words == AllKeywords(enriched)
        kept == SelectSeq(CounterKeys(pairs), LAMBDA pr : Occurrences(pairs, pr) >= min_weight)
    IN  [nodes |-> {[id |-> n, value |-> Occurrences(words, n)] :
                       n \in {kept[i][1] : i \in 1..Len(kept)}
                                \cup {kept[i][2] : i \in 1..Len(kept)}},
         links |-> [i \in 1..Len(kept) |->
                       [source |-> kept[i][1], target |-> kept[i][2],
                        value |-> Occurrences(pairs, kept[i])]]]

\* the papers perform_clustering hands to KMeans: v is not None and len(v) > 0
Qualifying(enriched) == SelectSeq(enriched, LAMBDA p : p.vector > 0)

\* the vectors of one call have one length
SameLength(valid) == \A i, j \in 1..Len(valid) : valid[i].vector = valid[j].vector

\* n = min(n_clusters, len(vectors))
EffectiveClusters(valid, n_clusters) == Min2(n_clusters, Len(valid))

\* what kmeans.fit_predict may return: one label below n for each row (which one
\* depends on the vector values); <<>> stands for a call that never reaches it
KMeansLabels(ps, env, n_clusters) ==
    LET valid == Qualifying(_enrich_papers(ps, env))
        n == EffectiveClusters(valid, n_clusters)
    IN  IF env.ml_ok /\ valid # <<>> /\ SameLength(valid) /\ n >= 1
        THEN [1..Len(valid) -> 0..(n - 1)]
        ELSE {<<>>}

\* the cluster summaries in the order of sorted(clusters.items())
RECURSIVE ClusterSummaries(_, _, _)
ClusterSummaries(valid, labels, used) ==
    IF used = {} THEN <<>>
    ELSE LET label == SetMin(used)
             items == SelectSeq([k \in 1..Len(valid) |-> k], LAMBDA k : labels[k] = label)
         IN  <<[cluster_id |-> label, count |-> Len(items),
                paper_ids |-> [k \in 1..Len(items) |-> valid[items[k]].id]]>>
             \o ClusterSummaries(valid, labels, used \ {label})

NoClusters == [clusters |-> <<>>, raised |-> FALSE]

\* perform_clustering(papers, n_clusters) when fit_predict returns labels;
\* np.array / KMeans raise ValueError on rows of different lengths and KMeans
\* rejects n_clusters < 1; "topic_name" of a summary is left out
perform_clustering(ps, env, n_clusters, labels) ==
    LET enriched == _enrich_papers(ps, env)
        valid == Qualifying(enriched)
    IN  IF enriched = <<>> THEN NoClusters
        ELSE IF ~env.ml_ok THEN NoClusters
        ELSE IF valid = <<>> THEN NoClusters
        ELSE IF ~SameLength(valid) \/ EffectiveClusters(valid, n_clusters) < 1
             THEN [clusters |-> <<>>, raised |-> TRUE]
        ELSE [clusters |-> ClusterSummaries(valid, labels,
                                            {labels[i] : i \in 1..Len(valid)}),
              raised |-> FALSE]

\* Counter(seq).items() as <<key, count>> pairs
CounterItems(seq) ==
    LET keys == CounterKeys(seq)
    IN  [i \in 1..Len(keys) |-> <<keys[i], Occurrences(seq, keys[i])>>]

\* the n of most_common(10)
TopKeywords == 10

\* Counter(seq).most_common(n) as <<key, count>> pairs: by count, largest first,
\* keys of one count in insertion order
MostCommon(seq, n) == Slice(SortDesc(CounterItems(seq)), 1, n)

\* the papers whose y is not None where the counters are updated: int(y) has
\* failed for BadYear and y keeps the unparsable value
Keyed(enriched) == SelectSeq(enriched, LAMBDA p : p.year # NoYear)

WithYear(enriched, y) == SelectSeq(enriched, LAMBDA p : p.year = y)

\* the parseable years in the order of the papers, repeated and unsorted
YearsAsGiven(enriched) ==
    LET counted == SelectSeq(enriched, YearCounted)
    IN  [i \in 1..Len(counted) |-> counted[i].year]

\* sorted(years_set)
SortedYears(enriched) ==
    Ascending({enriched[i].year : i \in {j \in 1..Len(enriched) : YearCounted(enriched[j])}})

\* the keywords all_kw.update(c) sees over year_kw.values(), one year key after
\* the other in the order the keys were made
RECURSIVE KeywordStream(_, _)
KeywordStream(enriched, keys) ==
    IF keys = <<>> THEN <<>>
    ELSE AllKeywords(WithYear(enriched, Head(keys))) \o KeywordStream(enriched, Tail(keys))

\* analyze_trends(papers)
analyze_trends(ps, env) ==
    LET enriched == _enrich_papers(ps, env)
        keyed == Keyed(enriched)
        top == MostCommon(KeywordStream(keyed, CounterKeys([i \in 1..Len(keyed) |-> keyed[i].year])),
                          TopKeywords)
        years == SortedYears(enriched)
    IN  [years |-> years,
         series |-> [i \in 1..Len(top) |->
                        [name |-> top[i][1],
                         data |-> [j \in 1..Len(years) |->
                                      Occurrences(AllKeywords(WithYear(enriched, years[j])),
                                                  top[i][1])]]]]

\* the attitude labels in Python's string order
AttitudeOrder ==
    <<"concerned", "critical", "neutral", "optimistic", "jijileguan", CautiousNeutral, "fengxiandanyou">>

\* analyze_attitude_evolution(papers); "type" and "stack" of a series are fixed
analyze_attitude_evolution(ps, env) ==
    LET enriched == _enrich_papers(ps, env)
        keyed == Keyed(enriched)
        categories == SelectSeq(AttitudeOrder,
                          LAMBDA a : \E i \in 1..Len(keyed) : keyed[i].features.attitude = a)
        years == SortedYears(enriched)
    IN  [years |-> years,
         series |-> [i \in 1..Len(categories) |->
                        [name |-> categories[i],
                         data |-> [j \in 1..Len(years) |->
                                      Cardinality({k \in 1..Len(enriched) :
                                          /\ enriched[k].year = years[j]
                                          /\ enriched[k].features.attitude = categories[i]})]]]]

\* get_dashboard_stats(papers)
get_dashboard_stats(ps, env) ==
    LET enriched == _enrich_papers(ps, env)
        years == SortedYears(enriched)
        atts == [i \in 1..Len(enriched) |-> enriched[i].features.attitude]
        meths == [i \in 1..Len(enriched) |->
                     OrElse(enriched[i].features.methods_label,
                            OrElse(enriched[i].methods_label, "qita"))]
    IN  [yearlyCounts |-> [j \in 1..Len(years) |-> <<years[j], Len(WithYear(enriched, years[j]))>>],
         topKeywords |-> MostCommon(AllKeywords(enriched), TopKeywords),
         attitudeDistribution |-> CounterItems(atts),
         researchPathDistribution |-> MostCommon(meths, TopKeywords)]

(***************************************************************************)
(* Specification of the analysis calls: a list of paper dicts is drawn,    *)
(* in a process that can or cannot load each optional model and library,   *)
(* then one CollectionAnalyzer method is applied to it                     *)
(***************************************************************************)
MaxAnalysisPapers == 3

MaxClusters == 3

MaxWeight == 2

\* the paper dicts a caller passes, before their ids are given
PaperDicts ==
    {[year |-> 2019, keywords |-> <<"ai", "gov">>, vector |-> 2,
      attitude_label |-> "", methods_label |-> "",
      features |-> [present |-> TRUE, attitude |-> "jijileguan", methods_label |-> KeyMissing],
      text_keywords |-> <<"gov">>, text_attitude |-> "optimistic", text_vector |-> 2],
     [year |-> 2021, keywords |-> <<"gov", "ai">>, vector |-> 2,
      attitude_label |-> "fengxiandanyou", methods_label |-> "survey",
      features |-> NoFeatures,
      text_keywords |-> <<"gov">>, text_attitude |-> "optimistic", text_vector |-> 2],
     [year |-> NoYear, keywords |-> <<"law">>, vector |-> NoVector,
      attitude_label |-> "", methods_label |-> "",
      features |-> [present |-> TRUE, attitude |-> CautiousNeutral, methods_label |-> "survey"],
      text_keywords |-> <<"law">>, text_attitude |-> "critical", text_vector |-> 2],
     [year |-> BadYear, keywords |-> <<"ai", "ai">>, vector |-> 3,
      attitude_label |-> "", methods_label |-> "",
      features |-> NoFeatures,
      text_keywords |-> <<"ai">>, text_attitude |-> "concerned", text_vector |-> 2],
     [year |-> 2019, keywords |-> <<>>, vector |-> 0,
      attitude_label |-> "fengxiandanyou", methods_label |-> "",
      features |-> [present |-> TRUE, attitude |-> "jijileguan", methods_label |-> "survey"],
      text_keywords |-> <<"law", "gov">>, text_attitude |-> "optimistic", text_vector |-> 2]}

\* paper i of a list has id i: ids are unique
WithIds(ds) ==
    [i \in 1..Len(ds) |->
        [id |-> i, year |-> ds[i].year, keywords |-> ds[i].keywords, vector |-> ds[i].vector,
         attitude_label |-> ds[i].attitude_label, methods_label |-> ds[i].methods_label,
         features |-> ds[i].features, text_keywords |-> ds[i].text_keywords,
         text_attitude |-> ds[i].text_attitude, text_vector |-> ds[i].text_vector]]

PaperLists == {WithIds(ds) : ds \in SeqsUpTo(PaperDicts, MaxAnalysisPapers)}

InitAnalysis ==
    /\ ParseIdle
    /\ SearchIdle
    /\ es_up = FALSE
    /\ faiss_up = FALSE
    /\ LoaderIdle
    /\ ExtractIdle
    /\ ld_kind = "_embed_model"
    /\ an_pc = "ready"
    /\ an_env \in [embed_ok : BOOLEAN, clf_ok : BOOLEAN, ml_ok : BOOLEAN]
    /\ an_given \in PaperLists
    /\ an_papers = an_given
    /\ an_arg = 0
    /\ an_out = [op |-> "none"]

\* one call of a CollectionAnalyzer method: each starts with _enrich_papers
AnalysisCall(op, arg, out) ==
    /\ an_pc = "ready"
    /\ an_pc' = op
    /\ an_arg' = arg
    /\ an_papers' = AfterEnrich(an_papers)
    /\ an_out' = out
    /\ UNCHANGED <<an_env, an_given, parseVars, storeVars, callVars, loaderVars, extractVars>>

PerformClustering ==
    \E n_clusters \in 0..MaxClusters :
        \E labels \in KMeansLabels(an_papers, an_env, n_clusters) :
            AnalysisCall("perform_clustering", n_clusters,
                         perform_clustering(an_papers, an_env, n_clusters, labels))

BuildCooccurrenceNetwork ==
    \E min_weight \in 1..MaxWeight :
        AnalysisCall("build_cooccurrence_network", min_weight,
                     build_cooccurrence_network(an_papers, an_env, min_weight))

AnalyzeTrends == AnalysisCall("analyze_trends", 0, analyze_trends(an_papers, an_env))

AnalyzeAttitudeEvolution ==
    AnalysisCall("analyze_attitude_evolution", 0, analyze_attitude_evolution(an_papers, an_env))

GetDashboardStats ==
    AnalysisCall("get_dashboard_stats", 0, get_dashboard_stats(an_papers, an_env))

NextAnalysis ==
    \/ PerformClustering
    \/ BuildCooccurrenceNetwork
    \/ AnalyzeTrends
    \/ AnalyzeAttitudeEvolution
    \/ GetDashboardStats

SpecAnalysis == InitAnalysis /\ [][NextAnalysis]_vars

(***************************************************************************)
(* Claims about the analysis calls (checked under SpecAnalysis)            *)
(***************************************************************************)
AnalysisReturned(op) == an_pc = op

\* C12: the graph build_cooccurrence_network returns has no link whose source
\* equals its target, and no two links join the same unordered keyword pair
C12_NoSelfLoopOneLinkPerPair ==
    AnalysisReturned("build_cooccurrence_network") =>
        LET links == an_out.links
        IN  /\ \A i \in 1..Len(links) : links[i].source # links[i].target
            /\ \A i, j \in 1..Len(links) :
                  {links[i].source, links[i].target} = {links[j].source, links[j].target}
                      => i = j

\* the papers of the call that carry a non-empty vector when KMeans is reached
QualifyingGiven == Qualifying(_enrich_papers(an_given, an_env))

\* C13: when min(n_clusters, number of papers with a non-empty vector) is below 2,
\* perform_clustering returns an empty cluster list and raises no error
C13_BelowTwoClustersEmpty ==
    (AnalysisReturned("perform_clustering") /\ EffectiveClusters(QualifyingGiven, an_arg) < 2) =>
        /\ an_out.clusters = <<>>
        /\ ~an_out.raised

\* the ids listed by the clusters of a result, one entry per listing
RECURSIVE ListedIds(_)
ListedIds(clusters) ==
    IF clusters = <<>> THEN <<>> ELSE Head(clusters).paper_ids \o ListedIds(Tail(clusters))

\* C14: the clusters perform_clustering returns list every input paper that has
\* a non-empty vector exactly once, list no input paper without one, and each
\* count is the length of its paper_ids
C14_ClustersPartitionVectorPapers ==
    (AnalysisReturned("perform_clustering") /\ ~an_out.raised) =>
        LET listed == ListedIds(an_out.clusters)
        IN  /\ \A i \in 1..Len(an_given) :
                  Occurrences(listed, an_given[i].id) = (IF an_given[i].vector > 0 THEN 1 ELSE 0)
            /\ \A c \in 1..Len(an_out.clusters) :
                  an_out.clusters[c].count = Len(an_out.clusters[c].paper_ids)
            /\ Len(listed) = Len(SelectSeq(an_given, LAMBDA p : p.vector > 0))

\* C15: a perform_clustering call whose non-empty vectors do not all have the same
\* length ends in an error raised to the caller
C15_MixedLengthsFail ==
    (AnalysisReturned("perform_clustering") /\ ~SameLength(QualifyingGiven)) => an_out.raised

\* C16: after any analysis call returns, every paper dict of the caller's list,
\* its nested features dict and keywords list included, is as it was before
C16_InputUnchanged ==
    (an_pc # "idle" /\ an_pc # "ready") => an_papers = an_given

\* the papers of the call whose year is present and parseable as an integer
ParseableGiven == SelectSeq(_enrich_papers(an_given, an_env), YearCounted)

\* the names of the series of a result
SeriesNames(out) == {out.series[i].name : i \in 1..Len(out.series)}

\* C17: analyze_trends counts only papers with a parseable year: its years are
\* their years, its at most 10 series are the keywords with the highest totals
\* over those papers, and each entry is the count of the keyword in that year
C17_TrendsIgnoreUnparseableYears ==
    AnalysisReturned("analyze_trends") =>
        LET total(k) == Occurrences(AllKeywords(ParseableGiven), k)
            series == an_out.series
        IN  /\ an_out.years = SortedYears(ParseableGiven)
            /\ Len(series) <= TopKeywords
            /\ \A i \in 1..Len(series) :
                  /\ total(series[i].name) > 0
                  /\ series[i].data =
                        [j \in 1..Len(an_out.years) |->
                            Occurrences(AllKeywords(WithYear(ParseableGiven, an_out.years[j])),
                                        series[i].name)]
            /\ \A p \in 1..Len(ParseableGiven) :
                  \A q \in 1..Len(ParseableGiven[p].keywords) :
                      ParseableGiven[p].keywords[q] \notin SeriesNames(an_out) =>
                          /\ Len(series) = TopKeywords
                          /\ \A i \in 1..Len(series) :
                                total(series[i].name) >= total(ParseableGiven[p].keywords[q])

\* the number of papers of the call whose year is y
PapersOfYear(y) == Cardinality({k \in 1..Len(an_given) : an_given[k].year = y})

\* the keyword occurrences of kw in the papers of the call whose year is y
KeywordCount(kw, y) ==
    LET enriched == _enrich_papers(an_given, an_env)
    IN  Cardinality(UNION {{<<k, q>> : q \in {r \in 1..Len(enriched[k].keywords) :
                                                  enriched[k].keywords[r] = kw}} :
                              k \in {m \in 1..Len(enriched) : enriched[m].year = y}})

\* the papers of the call whose year is y and whose attitude is att
AttitudeCount(att, y) ==
    LET enriched == _enrich_papers(an_given, an_env)
    IN  Cardinality({k \in 1..Len(enriched) :
            enriched[k].year = y /\ enriched[k].features.attitude = att})

RECURSIVE SumAt(_, _)
SumAt(series, j) == IF series = <<>> THEN 0 ELSE Head(series).data[j] + SumAt(Tail(series), j)

\* C18: in the results of analyze_trends and analyze_attitude_evolution the years
\* are strictly ascending, every series has one entry per year, entry j is the
\* count for years[j] (0 when no paper has the combination), and the entries of
\* the attitude series at j sum to the number of papers whose year is years[j]
C18_SeriesShape ==
    (AnalysisReturned("analyze_trends") \/ AnalysisReturned("analyze_attitude_evolution")) =>
        LET years == an_out.years
            series == an_out.series
        IN  /\ \A i, j \in 1..Len(years) : i < j => years[i] < years[j]
            /\ \A i \in 1..Len(series) :
                  /\ Len(series[i].data) = Len(years)
                  /\ \A j \in 1..Len(years) :
                        series[i].data[j] =
                            IF AnalysisReturned("analyze_trends")
                            THEN KeywordCount(series[i].name, years[j])
                            ELSE AttitudeCount(series[i].name, years[j])
            /\ AnalysisReturned("analyze_attitude_evolution") =>
                  \A j \in 1..Len(years) : SumAt(series, j) = PapersOfYear(years[j])

\* an attitude result over two years with two categories and an explicit 0, from
\* a list that also holds a paper with an unparseable year
C18_Witness ==
    /\ AnalysisReturned("analyze_attitude_evolution")
    /\ Len(an_out.years) = 2
    /\ Len(an_out.series) >= 2
    /\ \E i \in 1..Len(an_out.series) : an_out.series[i].data[1] = 0 /\ an_out.series[i].data[2] > 0
    /\ \E k \in 1..Len(an_given) : an_given[k].year = BadYear

(***************************************************************************)
(* The year distribution (checked under SpecSwd)                           *)
(***************************************************************************)
RECURSIVE SumCounts(_)
SumCounts(dist) == IF dist = <<>> THEN 0 ELSE Head(dist)[2] + SumCounts(Tail(dist))

\* C19: year_distribution lists each year of the returned results once, in
\* ascending order, with the number of results of that year; its counts sum to
\* the number of results whose year is present and parseable, and results
\* without such a year are in no entry
C19_YearDistributionSums ==
    SwdReturned =>
        LET dist == resp.year_distribution
            results == resp.results
            dated == {k \in 1..Len(results) : results[k].year \notin {NoYear, BadYear}}
        IN  /\ \A i, j \in 1..Len(dist) : i < j => dist[i][1] < dist[j][1]
            /\ \A i \in 1..Len(dist) :
                  /\ dist[i][1] \notin {NoYear, BadYear}
                  /\ dist[i][2] = Cardinality({k \in dated : results[k].year = dist[i][1]})
            /\ \A k \in dated : \E i \in 1..Len(dist) : dist[i][1] = results[k].year
            /\ SumCounts(dist) = Cardinality(dated)

\* a returned page that holds a paper without a year next to a dated one
C19_Witness ==
    /\ SwdReturned
    /\ resp.year_distribution # <<>>
    /\ \E k \in 1..Len(resp.results) : resp.results[k].year = NoYear
    /\ SumCounts(resp.year_distribution) < Len(resp.results)

(***************************************************************************)
(* The lazy model loaders: _embed_model of retrieval/vector_store.py and   *)
(* SinglePaperProcessor._ensure_embed / _ensure_classifier.  A call starts *)
(* a daemon thread that loads the model and joins it with a timeout.  The  *)
(* thread ends "loaded", "raised" (an exception its load() catches),       *)
(* "died" (an exception load() does not catch), or never ends.             *)
(***************************************************************************)
LoaderKinds == {"_embed_model", "_ensure_embed", "_ensure_classifier"}

\* the getters of data/feature_pipeline.py, which construct the model in the
\* calling thread
GetterKinds == {"_get_embed_model", "_get_zeroshot_pipe", "_get_keybert"}

\* load() of _embed_model catches every Exception; load() of the processor
\* catches only ImportError around the import
ThreadOutcomes(kind) ==
    IF kind = "_embed_model" THEN {"loaded", "raised"} ELSE {"loaded", "raised", "died"}

\* result[0] as the thread has left it
ThreadResult(kind, th) ==
    IF th = "loaded" THEN "model"
    ELSE IF th = "raised" /\ kind # "_embed_model" THEN "False"
    ELSE "None"

\* a loader call touches nothing else
LoaderFrame == UNCHANGED <<parseVars, storeVars, callVars, analysisVars, extractVars>>

Goto(c, label) == ld_pc' = [ld_pc EXCEPT ![c] = label]

\* return value: the caller gets the value and, when it is a model, the object
\* that is in the slot
LoaderReturns(c, value) ==
    ld_ret' = [ld_ret EXCEPT ![c].value = value,
                             ![c].instance = IF value = "model" THEN ld_owner ELSE 0]

\* the record of a call that starts now: what the globals hold as it starts
Entered ==
    [NoReturn EXCEPT !.entered = [failed |-> ld_failed,
                                  instance |-> IF ld_slot = "model" THEN ld_owner ELSE 0]]

\* a caller enters vector_search / get_embedding / classify_attitude, which
\* calls the loader; calls are made one after the other
BeginCall(c) ==
    /\ ld_pc[c] = "idle"
    /\ \A d \in Callers : ld_pc[d] \in {"idle", "done"}
    /\ Goto(c, IF ld_kind = "_embed_model" THEN "check_instance" ELSE "check_attr")
    /\ ld_ret' = [ld_ret EXCEPT ![c] = Entered]
    /\ UNCHANGED <<ld_kind, ld_slot, ld_failed, ld_owner, ld_thread>>
    /\ LoaderFrame

\* th.start()
StartThread(c) ==
    /\ ld_pc[c] = "start"
    /\ ld_thread' = [ld_thread EXCEPT ![c] = "running"]
    /\ ld_ret' = [ld_ret EXCEPT ![c].started = TRUE]
    /\ Goto(c, "join")
    /\ UNCHANGED <<ld_kind, ld_slot, ld_failed, ld_owner>>
    /\ LoaderFrame

\* the loader thread ends
ThreadFinish(c) ==
    /\ ld_thread[c] = "running"
    /\ \E outcome \in ThreadOutcomes(ld_kind) : ld_thread' = [ld_thread EXCEPT ![c] = outcome]
    /\ UNCHANGED <<ld_kind, ld_slot, ld_failed, ld_owner, ld_pc, ld_ret>>
    /\ LoaderFrame

\* th.join(timeout=...) returns because the thread has ended
JoinDone(c) ==
    /\ ld_pc[c] = "join"
    /\ ld_thread[c] # "running"
    /\ Goto(c, "is_alive")
    /\ UNCHANGED <<ld_kind, ld_slot, ld_failed, ld_owner, ld_thread, ld_ret>>
    /\ LoaderFrame

\* th.join(timeout=...) waits for a thread that has ended and for nothing else
JoinWithoutTimeout(c) ==
    /\ ld_pc[c] = "join"
    /\ ld_thread[c] # "running"
    /\ Goto(c, "is_alive")
    /\ UNCHANGED <<ld_kind, ld_slot, ld_failed, ld_owner, ld_thread, ld_ret>>
    /\ LoaderFrame

\* th.join(timeout=...) returns because the timeout has elapsed
JoinTimeout(c) ==
    /\ ld_pc[c] = "join"
    /\ Goto(c, "is_alive")
    /\ ld_ret' = [ld_ret EXCEPT ![c].timed_out = TRUE]
    /\ UNCHANGED <<ld_kind, ld_slot, ld_failed, ld_owner, ld_thread>>
    /\ LoaderFrame

\* the statements of _embed_model() around the join
EmbedModelStep(c) ==
    /\ ld_kind = "_embed_model"
    /\ \/ /\ ld_pc[c] = "check_instance"
          /\ IF ld_slot # "None"
             THEN LoaderReturns(c, ld_slot) /\ Goto(c, "return")
             ELSE UNCHANGED ld_ret /\ Goto(c, "check_failed")
          /\ UNCHANGED <<ld_slot, ld_failed, ld_owner>>
       \/ /\ ld_pc[c] = "check_failed"
          /\ IF ld_failed
             THEN LoaderReturns(c, "None") /\ Goto(c, "return")
             ELSE UNCHANGED ld_ret /\ Goto(c, "start")
          /\ UNCHANGED <<ld_slot, ld_failed, ld_owner>>
       \/ /\ ld_pc[c] = "is_alive"
          /\ Goto(c, IF ld_thread[c] = "running" THEN "set_failed" ELSE "check_err")
          /\ UNCHANGED <<ld_slot, ld_failed, ld_owner, ld_ret>>
       \/ /\ ld_pc[c] = "check_err"
          /\ Goto(c, IF ld_thread[c] = "raised" THEN "set_failed" ELSE "set_instance")
          /\ UNCHANGED <<ld_slot, ld_failed, ld_owner, ld_ret>>
       \/ /\ ld_pc[c] = "set_failed"
          /\ ld_failed' = TRUE
          /\ LoaderReturns(c, "None")
          /\ Goto(c, "return")
          /\ UNCHANGED <<ld_slot, ld_owner>>
       \/ /\ ld_pc[c] = "set_instance"
          /\ ld_slot' = ThreadResult(ld_kind, ld_thread[c])
          /\ ld_owner' = c
          /\ Goto(c, "read_instance")
          /\ UNCHANGED <<ld_failed, ld_ret>>
       \/ /\ ld_pc[c] = "read_instance"
          /\ LoaderReturns(c, ld_slot)
          /\ Goto(c, "return")
          /\ UNCHANGED <<ld_slot, ld_failed, ld_owner>>
    /\ UNCHANGED <<ld_kind, ld_thread>>
    /\ LoaderFrame

\* the statements of _ensure_embed() / _ensure_classifier() around the join
EnsureStep(c) ==
    /\ ld_kind # "_embed_model"
    /\ \/ /\ ld_pc[c] = "check_attr"
          /\ Goto(c, IF ld_slot = "None" THEN "start" ELSE "read_attr")
          /\ UNCHANGED <<ld_slot, ld_owner, ld_ret>>
       \/ /\ ld_pc[c] = "is_alive"
          /\ ld_slot' = IF ld_thread[c] # "running" /\ ThreadResult(ld_kind, ld_thread[c]) # "None"
                        THEN ThreadResult(ld_kind, ld_thread[c])
                        ELSE "False"
          /\ ld_owner' = IF ld_thread[c] = "loaded" THEN c ELSE ld_owner
          /\ Goto(c, "read_attr")
          /\ UNCHANGED ld_ret
       \/ /\ ld_pc[c] = "read_attr"
          /\ LoaderReturns(c, ld_slot)
          /\ Goto(c, "return")
          /\ UNCHANGED <<ld_slot, ld_owner>>
    /\ UNCHANGED <<ld_kind, ld_failed, ld_thread>>
    /\ LoaderFrame

\* what the function that called the loader returns: vector_search gives [] and
\* get_embedding None without a model, classify_attitude gives "neutral"
UserResult(kind, value) ==
    IF kind \in GetterKinds
    THEN (IF value = "model" THEN "used" ELSE "fallback")
    ELSE IF value = "model"
    THEN (IF kind = "_embed_model" THEN "hits"
          ELSE IF kind = "_ensure_embed" THEN "vector" ELSE "label")
    ELSE (IF kind = "_embed_model" THEN "[]"
          ELSE IF kind = "_ensure_embed" THEN "None" ELSE "neutral")

EndCall(c) ==
    /\ ld_pc[c] = "return"
    /\ ld_ret' = [ld_ret EXCEPT ![c].out = UserResult(ld_kind, ld_ret[c].value)]
    /\ Goto(c, "done")
    /\ UNCHANGED <<ld_kind, ld_slot, ld_failed, ld_owner, ld_thread>>
    /\ LoaderFrame

\* the caller goes on with the result
TakeResult(c) ==
    /\ ld_pc[c] = "done"
    /\ Goto(c, "idle")
    /\ UNCHANGED <<ld_kind, ld_slot, ld_failed, ld_owner, ld_thread, ld_ret>>
    /\ LoaderFrame

\* a step of caller c inside a call
CallerStep(c) ==
    StartThread(c) \/ JoinDone(c) \/ JoinTimeout(c) \/ EmbedModelStep(c) \/ EnsureStep(c)
        \/ EndCall(c)

InitLoader ==
    /\ ParseIdle
    /\ SearchIdle
    /\ es_up = FALSE
    /\ faiss_up = FALSE
    /\ AnalysisIdle
    /\ LoaderIdle
    /\ ExtractIdle
    /\ ld_kind \in LoaderKinds

NextLoader ==
    \E c \in Callers :
        \/ BeginCall(c)
        \/ StartThread(c)
        \/ ThreadFinish(c)
        \/ JoinDone(c)
        \/ JoinTimeout(c)
        \/ EmbedModelStep(c)
        \/ EnsureStep(c)
        \/ EndCall(c)
        \/ TakeResult(c)

SpecLoader == InitLoader /\ [][NextLoader]_vars

\* the clock runs and a caller that can take its next statement takes it; the
\* loader thread is promised nothing
SpecLoaderLive == SpecLoader /\ \A c \in Callers : WF_vars(CallerStep(c))

(***************************************************************************)
(* Claims about the lazy loaders (checked under SpecLoaderLive)            *)
(***************************************************************************)
\* the loader thread of caller c has not delivered a model
NotLoaded(c) == ld_thread[c] \in {"running", "raised", "died"}

Unavailable(c) ==
    /\ ld_ret[c].value \in {"None", "False"}
    /\ ld_ret[c].out = (IF ld_kind = "_embed_model" THEN "[]"
                        ELSE IF ld_kind = "_ensure_embed" THEN "None" ELSE "neutral")

\* C20: a call that waits for its loader thread returns once the timeout has
\* elapsed even when the thread never ends; a call whose thread is still running
\* or has raised returns the unavailable value (None / False), so vector_search
\* returns [] and get_embedding returns None
C20_BoundedModelLoad ==
    /\ [](\A c \in Callers : (ld_pc[c] = "done" /\ NotLoaded(c)) => Unavailable(c))
    /\ \A c \in Callers : (ld_pc[c] \notin {"idle", "done"}) ~> (ld_pc[c] = "done")

\* vector_search has returned [] after a join that ran out while its loader
\* thread is still running
C20_Witness ==
    \E c \in Callers :
        /\ ld_kind = "_embed_model"
        /\ ld_pc[c] = "done"
        /\ ld_ret[c].timed_out
        /\ ld_thread[c] = "running"
        /\ ld_ret[c].out = "[]"

(***************************************************************************)
(* Further claims about hybrid_search (checked under Spec)                 *)
(***************************************************************************)
\* C23: _title_match_bonus returns 0 or 1 for every title, topic_terms value and
\* raw query without raising, so a hybrid_search call with a non-empty
\* topic_terms list and titled candidates completes
C23_TitleBonusTotal ==
    (pc = "hybrid_search" /\ req.topic_terms # <<>>) => ~resp.raised

(***************************************************************************)
(* The years of a query text (checked under SpecSwd)                       *)
(***************************************************************************)
\* C24: with use_query_understanding and a query text that holds a year
\* expression, the years parsed from the text are the ones handed to
\* hybrid_search, whatever start_year / end_year the caller passed
C24_ParsedYearsOverride ==
    (pc = "search_with_distributions" /\ req.use_query_understanding /\ Strip(req.q) # <<>>) =>
        LET pq == parse_query(req.q)
            a == SwdArgs(req.q, req.start_year, req.end_year, req.use_query_understanding)
        IN  /\ pq.start_year # NoYear => a.start_year = pq.start_year
            /\ pq.end_year # NoYear => a.end_year = pq.end_year

\* the hits the two backends gave the returned call
CallBm25Hits ==
    IF es_docs # <<>>
    THEN bm25_search(Indexed, es_docs, req.q, req.start_year, req.end_year, req.source,
                     req.limit * 2)
    ELSE <<>>

CallVecHits ==
    IF vec_ids # <<>> /\ Strip(req.q) # <<>>
    THEN vector_search(Indexed, vec_ids, req.q, req.limit * 2)
    ELSE <<>>

\* raw / MaxOrOne(hits) lies in [0, 1] for every hit, and is 1 for the hit
\* with the largest raw score
NormalizedInUnit(hits) ==
    \A i \in 1..Len(hits) :
        /\ hits[i][2] * Sgn(MaxOrOne(hits)) >= 0
        /\ hits[i][2] * Sgn(MaxOrOne(hits)) <= Abs(MaxOrOne(hits))
        /\ hits[i][2] = SeqMaxScore(hits) => hits[i][2] = MaxOrOne(hits)

\* C25: in the fusion path each raw signal is divided by the largest raw value
\* its backend returned (1 when that is 0 or there is no hit), so each
\* normalized signal is in [0, 1] and the hit with the largest raw score has 1
C25_SignalsNormalized ==
    FusionReturned => (NormalizedInUnit(CallBm25Hits) /\ NormalizedInUnit(CallVecHits))

(***************************************************************************)
(* The threshold of the co-occurrence network (checked under SpecAnalysis) *)
(***************************************************************************)
EnrichedGiven == _enrich_papers(an_given, an_env)

\* the number of position pairs i < j of one keyword list that hold u and v
PairCount(u, v) ==
    Cardinality({t \in UNION {{<<p, i, j>> : i, j \in 1..Len(EnrichedGiven[p].keywords)} :
                                 p \in 1..Len(EnrichedGiven)} :
                    /\ t[2] < t[3]
                    /\ {EnrichedGiven[t[1]].keywords[t[2]], EnrichedGiven[t[1]].keywords[t[3]]}
                           = {u, v}})

\* the number of occurrences of keyword n in the keyword lists of the collection
KeywordFrequency(n) ==
    Cardinality(UNION {{<<p, i>> : i \in {k \in 1..Len(EnrichedGiven[p].keywords) :
                                              EnrichedGiven[p].keywords[k] = n}} :
                          p \in 1..Len(EnrichedGiven)})

LinkEndpoints(links) ==
    {links[i].source : i \in 1..Len(links)} \cup {links[i].target : i \in 1..Len(links)}

\* C27: every link of the returned network has a value that is at least
\* min_weight and equals the number of co-occurrences of its pair; the nodes
\* are exactly the endpoints of the returned links; each node's value is the
\* total frequency of its keyword in the collection
C27_ThresholdConsistency ==
    AnalysisReturned("build_cooccurrence_network") =>
        /\ \A i \in 1..Len(an_out.links) :
              /\ an_out.links[i].value >= an_arg
              /\ an_out.links[i].value = PairCount(an_out.links[i].source, an_out.links[i].target)
        /\ {n.id : n \in an_out.nodes} = LinkEndpoints(an_out.links)
        /\ \A n \in an_out.nodes : n.value = KeywordFrequency(n.id)
        /\ \A n, m \in an_out.nodes : n.id = m.id => n = m

\* a call with min_weight 2 that keeps a link, drops a pair that occurs once
\* and leaves a keyword of the collection out of the nodes
C27_Witness ==
    /\ AnalysisReturned("build_cooccurrence_network")
    /\ an_arg = 2
    /\ an_out.links # <<>>
    /\ \E u, v \in {KeywordOrder[k] : k \in 1..Len(KeywordOrder)} : PairCount(u, v) = 1
    /\ \E k \in 1..Len(KeywordOrder) :
          /\ KeywordFrequency(KeywordOrder[k]) > 0
          /\ KeywordOrder[k] \notin {n.id : n \in an_out.nodes}

(***************************************************************************)
(* The fall-through of hybrid_search (checked under Spec)                  *)
(***************************************************************************)
\* the candidate ids the two backends gave the call
CallCandidates == AppendNew(Ids(CallBm25Hits), Ids(CallVecHits))

AllCandidatesFiltered ==
    \A i \in 1..Len(CallCandidates) :
        ~PassesFilters(papers, CallCandidates[i], req.start_year, req.end_year, req.source)

\* C28: with at least one backend available, a call whose backends give no
\* candidate returns the search_sqlite result; a call whose backends give at
\* least one candidate returns the fusion result, which is the empty list with
\* total 0 when the filters remove every candidate
C28_FallThrough ==
    (pc = "hybrid_search" /\ ~NoBackend) =>
        IF CallCandidates = <<>>
        THEN resp = search_sqlite(papers, req.q, req.start_year, req.end_year, req.source,
                                  req.limit, req.offset)
        ELSE /\ ~resp.raised
             /\ resp.path = "fusion"
             /\ AllCandidatesFiltered => (resp.results = <<>> /\ resp.total = 0)

(***************************************************************************)
(* Imports into a second database.  run_import(db_path=...) writes the     *)
(* rows to the database it is given and then fills the one Elasticsearch   *)
(* index and the one FAISS index from that database, while hybrid_search   *)
(* reads the metadata rows of LIT_DB_PATH.                                 *)
(***************************************************************************)
RunImportOtherDb(p, row) ==
    /\ pc = "idle"
    /\ p \notin DOMAIN papers \cup DOMAIN other_db
    /\ other_db' = [x \in DOMAIN other_db \cup {p} |-> IF x = p THEN row ELSE other_db[x]]
    /\ IF es_up
       THEN es_docs' \in Perms({es_docs[i] : i \in 1..Len(es_docs)} \cup DOMAIN other_db')
       ELSE UNCHANGED es_docs
    /\ IF faiss_up
       THEN vec_ids' = Ascending(DOMAIN other_db')
       ELSE UNCHANGED vec_ids
    /\ UNCHANGED <<papers, es_up, faiss_up, parseVars, callVars, analysisVars, loaderVars, extractVars>>

ImportOtherDb == \E p \in PaperIds, row \in PaperRows : RunImportOtherDb(p, row)

\* hybrid_search with the default weights and no topic terms
CallHybridDefault ==
    \E q \in QueryTexts, f \in FilterArgs, limit \in 1..MaxLimit, offset \in 0..MaxOffset :
        HybridSearch(q, f, limit, offset, <<DefaultWeights, <<>>>>, <<>>)

NextOtherDb == Import \/ ImportOtherDb \/ CallHybridDefault \/ Return

SpecOtherDb == InitSearch /\ [][NextOtherDb]_vars

(***************************************************************************)
(* Results and total of the fusion path (checked under SpecOtherDb)        *)
(***************************************************************************)
\* page k (from 0) of the returned call's query, with the call's limit
PageOf(k) ==
    hybrid_search_on(Indexed, papers, es_docs, vec_ids, req.q, req.start_year, req.end_year,
                     req.source, req.limit, k * req.limit, req.w, req.user_pref_terms,
                     req.topic_terms)

\* the number of items on pages 0 .. k
RECURSIVE ItemsUpToPage(_)
ItemsUpToPage(k) ==
    IF k < 0 THEN 0 ELSE Len(PageOf(k).results) + ItemsUpToPage(k - 1)

\* C29: in the fusion path every returned item is a candidate of some backend
\* that has a metadata row and passed the filters; a page has at most limit
\* items in non-increasing score order; and the items of all pages together
\* are as many as total says
C29_ResultsAgreeWithTotal ==
    FusionReturned =>
        /\ \A i \in 1..Len(resp.results) :
              /\ \E c \in 1..Len(CallCandidates) : CallCandidates[c] = resp.results[i].paper_id
              /\ resp.results[i].paper_id \in DOMAIN papers
              /\ PassesFilters(papers, resp.results[i].paper_id, req.start_year, req.end_year,
                               req.source)
        /\ Len(resp.results) <= req.limit
        /\ \A i, j \in 1..Len(resp.results) :
              i < j => resp.results[i].score[1] >= resp.results[j].score[1]
        /\ ItemsUpToPage(Len(CallCandidates)) = resp.total

(***************************************************************************)
(* Concurrent callers of the loaders.  The endpoints of api/app.py are     *)
(* plain functions, which the server runs in a pool of threads, so calls   *)
(* of vector_search and of the analysis methods overlap; no loader takes a *)
(* lock.                                                                   *)
(***************************************************************************)
\* a caller enters the function that calls the loader, whatever the others do
EnterCall(c) ==
    /\ ld_pc[c] = "idle"
    /\ Goto(c, IF ld_kind = "_embed_model" THEN "check_instance"
               ELSE IF ld_kind \in GetterKinds THEN "check_global" ELSE "check_attr")
    /\ ld_ret' = [ld_ret EXCEPT ![c] = Entered]
    /\ UNCHANGED <<ld_kind, ld_slot, ld_failed, ld_owner, ld_thread>>
    /\ LoaderFrame

\* the statements of _get_embed_model() / _get_zeroshot_pipe() / _get_keybert():
\* the test of the global, the construction in the calling thread (ld_thread
\* holds its outcome), the assignment and the return; an exception of the
\* construction leaves the getter and the caller falls back
GetterStep(c) ==
    /\ ld_kind \in GetterKinds
    /\ \/ /\ ld_pc[c] = "check_global"
          /\ Goto(c, IF ld_slot = "None" THEN "construct" ELSE "read_global")
          /\ UNCHANGED <<ld_slot, ld_owner, ld_thread, ld_ret>>
       \/ /\ ld_pc[c] = "construct"
          /\ \E outcome \in {"loaded", "raised"} :
                /\ ld_thread' = [ld_thread EXCEPT ![c] = outcome]
                /\ IF outcome = "loaded"
                   THEN UNCHANGED ld_ret /\ Goto(c, "assign")
                   ELSE LoaderReturns(c, "raised") /\ Goto(c, "return")
          /\ UNCHANGED <<ld_slot, ld_owner>>
       \/ /\ ld_pc[c] = "assign"
          /\ ld_slot' = "model"
          /\ ld_owner' = c
          /\ Goto(c, "read_global")
          /\ UNCHANGED <<ld_thread, ld_ret>>
       \/ /\ ld_pc[c] = "read_global"
          /\ LoaderReturns(c, ld_slot)
          /\ Goto(c, "return")
          /\ UNCHANGED <<ld_slot, ld_owner, ld_thread>>
    /\ UNCHANGED <<ld_kind, ld_failed>>
    /\ LoaderFrame

InitLoaderConcurrent ==
    /\ ParseIdle
    /\ SearchIdle
    /\ es_up = FALSE
    /\ faiss_up = FALSE
    /\ AnalysisIdle
    /\ LoaderIdle
    /\ ExtractIdle
    /\ ld_kind \in LoaderKinds \cup GetterKinds

NextLoaderConcurrent ==
    \E c \in Callers :
        \/ EnterCall(c)
        \/ StartThread(c)
        \/ ThreadFinish(c)
        \/ JoinDone(c)
        \/ JoinTimeout(c)
        \/ EmbedModelStep(c)
        \/ EnsureStep(c)
        \/ GetterStep(c)
        \/ EndCall(c)
        \/ TakeResult(c)

SpecLoaderConcurrent == InitLoaderConcurrent /\ [][NextLoaderConcurrent]_vars

(***************************************************************************)
(* Claims about the model singletons (checked under SpecLoaderConcurrent)  *)
(***************************************************************************)
\* the callers whose load constructed a model
Constructed == {c \in Callers : ld_thread[c] = "loaded"}

\* C21: under any interleaving of concurrent callers the model is constructed
\* at most once per process, and once the module-level instance is set it is
\* never replaced by a different instance
C21_LoadedOnce ==
    /\ [](Cardinality(Constructed) <= 1)
    /\ [][ld_owner # 0 => ld_owner' = ld_owner]_vars

\* C30: once a call of _embed_model has timed out or failed, every later call
\* returns None without starting a loader thread; once a call has succeeded,
\* every later call returns that same instance without starting a loader
C30_StickyUnavailability ==
    \A c \in Callers :
        (ld_kind = "_embed_model" /\ ld_pc[c] = "done") =>
            /\ ld_ret[c].entered.failed =>
                  (ld_ret[c].value = "None" /\ ~ld_ret[c].started)
            /\ ld_ret[c].entered.instance # 0 =>
                  /\ ld_ret[c].value = "model"
                  /\ ld_ret[c].instance = ld_ret[c].entered.instance
                  /\ ~ld_ret[c].started

(***************************************************************************)
(* extract_structured and _call_llm_extract (src/data/structured_extract.py) *)
(* A dict of extracted fields is the set of its keys; the value of a key   *)
(* is named by where it came from ("llm", "heuristic").  Seconds are whole *)
(* numbers.                                                                *)
(***************************************************************************)
GLM_REQUEST_DELAY == 3

GLM_RATE_LIMIT_RETRIES == 3

GLM_RATE_LIMIT_INITIAL_WAIT == 2

\* what client.chat.completions.create does: a completion whose content names
\* all, one or none of the six labels, a response without choices, an error
\* that _is_rate_limit_error recognises, or another error
RequestOutcomes == {"ok_all", "ok_some", "ok_none", "no_choices", "rate_limit", "other"}

_is_rate_limit_error(e) == e = "rate_limit"

\* _parse_llm_response(content): the keys whose label is found with a value
_parse_llm_response(outcome) ==
    IF outcome = "ok_all" THEN StructuredKeys
    ELSE IF outcome = "ok_some" THEN {"methods"}
    ELSE {}

\* the test of the except clause of the loop
RetryAnyError(attempt, e) == attempt < GLM_RATE_LIMIT_RETRIES

ShouldRetry(attempt, e) == attempt < GLM_RATE_LIMIT_RETRIES /\ _is_rate_limit_error(e)

\* wait = GLM_RATE_LIMIT_INITIAL_WAIT * (2 ** attempt)
BackoffWait(attempt) == GLM_RATE_LIMIT_INITIAL_WAIT * (2 ^ attempt)

\* {"background": d.get("background", ""), ...}
SixKeys(keys, origin) == [k \in StructuredKeys |-> IF k \in keys THEN origin ELSE ""]

LogEntry(kind, attempt, what, seconds) ==
    [kind |-> kind, attempt |-> attempt, what |-> what, seconds |-> seconds]

ExtractFrame == UNCHANGED <<parseVars, storeVars, callVars, analysisVars, loaderVars>>

\* the arguments: use_llm, whether an API key is configured, whether abstract
\* and snippet are blank, and the keys the heuristic patterns find in them
ExtractInputs ==
    {i \in [use_llm : BOOLEAN, api_key : BOOLEAN, blank : BOOLEAN,
            heuristic : {{}, {"background", "methods"}, StructuredKeys}] :
        i.blank => i.heuristic = {}}

\* extract_structured up to the call of _call_llm_extract
EnterExtract ==
    /\ ex_pc = "extract_structured"
    /\ ex_pc' = IF ex_in.use_llm /\ ex_in.api_key THEN "_call_llm_extract" ELSE "heuristic"
    /\ UNCHANGED <<ex_in, ex_attempt, ex_log, ex_llm, ex_out>>
    /\ ExtractFrame

\* _call_llm_extract up to the try: {} without a key or a text, else the
\* request delay
LlmPreamble ==
    /\ ex_pc = "_call_llm_extract"
    /\ IF ~ex_in.api_key \/ ex_in.blank
       THEN /\ ex_llm' = [returned |-> TRUE, keys |-> {}]
            /\ ex_pc' = "llm_returned"
            /\ UNCHANGED ex_log
       ELSE /\ ex_log' = Append(ex_log, LogEntry("delay", 0, "", GLM_REQUEST_DELAY))
            /\ ex_pc' = "client"
            /\ UNCHANGED ex_llm
    /\ UNCHANGED <<ex_in, ex_attempt, ex_out>>
    /\ ExtractFrame

\* the import of openai and the construction of the client, which may raise
MakeClient ==
    /\ ex_pc = "client"
    /\ \E ok \in BOOLEAN : ex_pc' = IF ok THEN "request" ELSE "except"
    /\ ex_attempt' = 0
    /\ UNCHANGED <<ex_in, ex_log, ex_llm, ex_out>>
    /\ ExtractFrame

\* one pass of the loop body: the request, and what follows its outcome
Request ==
    /\ ex_pc = "request"
    /\ ex_attempt <= GLM_RATE_LIMIT_RETRIES
    /\ \E outcome \in RequestOutcomes :
          /\ ex_log' = Append(ex_log, LogEntry("request", ex_attempt, outcome, 0))
          /\ IF outcome \in {"rate_limit", "other"}
             THEN /\ ex_pc' = IF ShouldRetry(ex_attempt, outcome) THEN "backoff" ELSE "except"
                  /\ UNCHANGED ex_llm
             ELSE /\ ex_llm' = [returned |-> TRUE, keys |-> _parse_llm_response(outcome)]
                  /\ ex_pc' = "llm_returned"
    /\ UNCHANGED <<ex_in, ex_attempt, ex_out>>
    /\ ExtractFrame

\* time.sleep(wait); continue
Backoff ==
    /\ ex_pc = "backoff"
    /\ ex_log' = Append(ex_log, LogEntry("backoff", ex_attempt, "", BackoffWait(ex_attempt)))
    /\ ex_attempt' = ex_attempt + 1
    /\ ex_pc' = "request"
    /\ UNCHANGED <<ex_in, ex_llm, ex_out>>
    /\ ExtractFrame

\* the outer except: a warning, and {} is returned
ExceptHandler ==
    /\ ex_pc = "except"
    /\ ex_llm' = [returned |-> TRUE, keys |-> {}]
    /\ ex_pc' = "llm_returned"
    /\ UNCHANGED <<ex_in, ex_attempt, ex_log, ex_out>>
    /\ ExtractFrame

\* extract_structured after the call: the six keys from a non-empty llm_out
AfterLlm ==
    /\ ex_pc = "llm_returned"
    /\ IF ex_llm.keys # {}
       THEN /\ ex_out' = [returned |-> TRUE, dict |-> SixKeys(ex_llm.keys, "llm")]
            /\ ex_pc' = "done"
       ELSE /\ ex_pc' = "heuristic"
            /\ UNCHANGED ex_out
    /\ UNCHANGED <<ex_in, ex_attempt, ex_log, ex_llm>>
    /\ ExtractFrame

\* _heuristic_from_abstract and the six keys from its result
Heuristic ==
    /\ ex_pc = "heuristic"
    /\ ex_out' = [returned |-> TRUE, dict |-> SixKeys(ex_in.heuristic, "heuristic")]
    /\ ex_pc' = "done"
    /\ UNCHANGED <<ex_in, ex_attempt, ex_log, ex_llm>>
    /\ ExtractFrame

InitExtract ==
    /\ ParseIdle
    /\ SearchIdle
    /\ es_up = FALSE
    /\ faiss_up = FALSE
    /\ AnalysisIdle
    /\ LoaderIdle /\ ld_kind = "_embed_model"
    /\ ex_pc = "extract_structured"
    /\ ex_in \in ExtractInputs
    /\ ex_attempt = 0
    /\ ex_log = <<>>
    /\ ex_llm = [returned |-> FALSE, keys |-> {}]
    /\ ex_out = [returned |-> FALSE, dict |-> [k \in StructuredKeys |-> ""]]

NextExtract ==
    \/ EnterExtract
    \/ LlmPreamble
    \/ MakeClient
    \/ Request
    \/ Backoff
    \/ ExceptHandler
    \/ AfterLlm
    \/ Heuristic

SpecExtract == InitExtract /\ [][NextExtract]_vars

(***************************************************************************)
(* The retry protocol (checked under SpecExtract)                          *)
(***************************************************************************)
RequestsMade == SelectSeq(ex_log, LAMBDA e : e.kind = "request")

\* the call of _call_llm_extract made a request and every request failed
LlmFailed ==
    /\ RequestsMade # <<>>
    /\ \A i \in 1..Len(RequestsMade) : RequestsMade[i].what \in {"rate_limit", "other"}

\* C26: _call_llm_extract makes at most GLM_RATE_LIMIT_RETRIES + 1 requests; a
\* request other than the first follows a rate-limit error and a sleep of
\* GLM_RATE_LIMIT_INITIAL_WAIT * 2^attempt; another error, or a rate-limit
\* error on the last attempt, is the last request; a call whose requests all
\* failed returns {}, and extract_structured then returns the heuristic result;
\* its result always has the six keys
C26_RetryProtocol ==
    /\ Len(RequestsMade) <= GLM_RATE_LIMIT_RETRIES + 1
    /\ \A i \in 1..Len(RequestsMade) : RequestsMade[i].attempt = i - 1
    /\ \A i \in 1..Len(ex_log) :
          (ex_log[i].kind = "request" /\ ex_log[i].attempt > 0) =>
              /\ i >= 3
              /\ ex_log[i - 1].kind = "backoff"
              /\ ex_log[i - 1].seconds
                    = GLM_RATE_LIMIT_INITIAL_WAIT * (2 ^ (ex_log[i].attempt - 1))
              /\ ex_log[i - 2].kind = "request"
              /\ ex_log[i - 2].what = "rate_limit"
              /\ ex_log[i - 2].attempt = ex_log[i].attempt - 1
    /\ \A i \in 1..Len(ex_log) :
          (/\ ex_log[i].kind = "request"
           /\ \/ ex_log[i].what # "rate_limit"
              \/ ex_log[i].attempt = GLM_RATE_LIMIT_RETRIES) => i = Len(ex_log)
    /\ (ex_llm.returned /\ LlmFailed) => ex_llm.keys = {}
    /\ (ex_pc \in {"llm_returned", "heuristic", "done"} /\ ex_in.use_llm /\ ex_in.api_key)
          => ex_llm.returned
    /\ ex_pc = "done" =>
          /\ ex_out.returned
          /\ DOMAIN ex_out.dict = StructuredKeys
          /\ ex_llm.keys = {} =>
                ex_out.dict = [k \in StructuredKeys |->
                                  IF k \in ex_in.heuristic THEN "heuristic" ELSE ""]

\* every attempt met a rate-limit error, the last one included, and the call
\* returned the heuristic result of a text in which the heuristic finds fields
C26_Witness ==
    /\ ex_pc = "done"
    /\ Len(RequestsMade) = GLM_RATE_LIMIT_RETRIES + 1
    /\ LlmFailed
    /\ ex_log[Len(ex_log)].what = "rate_limit"
    /\ ex_in.heuristic = {"background", "methods"}
    /\ ex_out.dict["background"] = "heuristic"

=============================================================================
